---- MODULE Spec2Model ----
(***************************************************************************)
(* A model of the vendor-catalog import pipeline                           *)
(* (VendorCatalog/controllers/import_controller.py): source readers, the   *)
(* field mapper and the per-record upsert loop, over an abstract           *)
(* vendor-product store.                                                   *)
(*                                                                         *)
(* Encoding of Python values.  A raw record is a function from a finite    *)
(* set of keys (strings) to scalar values (strings).  Three values stand   *)
(* for the scalars Python treats as false: "" (the empty string), NONE     *)
(* (None) and ZERO (a numeric 0, 0.0 or False).  Every other string is a   *)
(* true value.  An item that is not a mapping at all (a JSON number in a   *)
(* list of items) is the one-key function NonDictItem.                     *)
(***************************************************************************)
EXTENDS Integers, Sequences, FiniteSets, TLC

VARIABLES
    pc,             \* position of the running call
    entry,          \* the entry point that was called
    vendors,        \* ids in the vendors table
    store,          \* rows of the vendor-product table
    nextId,         \* next generated row identity
    vendor_id,      \* argument: target vendor
    mapping,        \* argument: field mapping, NoMapping when none is given
    data,           \* _process_mapped_data: the list of raw records
    idx,            \* _process_mapped_data: position of the for loop (1-based)
    imported_count, \* _process_mapped_data: success counter
    errors,         \* _process_mapped_data: list of error strings
    procResult,     \* what _process_mapped_data returned (or that it raised)
    result,         \* what the entry point returned (or that it raised)
    product_data,   \* _process_mapped_data: the canonical record being built
    outcome,        \* history: what happened to each record handled so far
    oplog,          \* history: the store calls issued, in order
    written,        \* history: rows written since the entry point was called
    faults,         \* history: calls of the store or the source that raised
    src,            \* argument: the external source the reader works on
    file,           \* import_from_file: the file at file_path
    fileResult,     \* what import_from_file returned
    api,            \* import_from_api: requests sent, current page, all_data
    sftp,           \* import_from_sftp: files, position, totals
    multi,          \* import_from_sftp_multi: position, totals
    disk,           \* local temporary files that exist
    matched,        \* what _matches_pattern returned
    failure,        \* history: the source-access failures met, in order
    backend,        \* the database the models talk to: "sqlite" or "postgres"
    bulk,           \* bulk_insert: arguments, position, open transaction
    sql,            \* what the last model operation did (or that it raised)
    vendor_seq,     \* vendors inserted so far (the AUTOINCREMENT counter)
    nops,           \* history: model operations called so far
    config,         \* settings.py: the module's current configuration
    user_file,      \* settings.py: the file at CONFIG_PATH
    setting,        \* settings.py: the last get_setting call and its value
    ui,             \* ImportFrame: which frame, its start control, its status line
    threads,        \* ImportFrame: the worker threads the frame started
    after_queue,    \* Tk: callbacks scheduled with after(0, ...), oldest first
    reports,        \* history: the completion callbacks the main loop ran
    db_tables,      \* the database's schema: each table's columns and constraints
    db_rows,        \* the rows of vendors, products and vendor_products, by column
    dbinit,         \* DatabaseFactory.initialize_database: position, tables created
    ctl,            \* the last controller call: arguments, rows before, what it did
    savers,         \* concurrent VendorProductPostgres.save calls, one per session
    imports,        \* concurrent _process_mapped_data calls, one per worker
    pair            \* one bulk input written by both backends, side by side

\* the call's arguments and the tables no import writes
argVars == <<entry, vendors, vendor_id, mapping, src>>

\* the vendor-product table
storeVars == <<store, nextId>>

\* the locals of _process_mapped_data, with the history of its loop
procVars == <<data, idx, imported_count, errors, product_data, outcome, oplog,
              written, faults>>

\* the locals of the readers
readerVars == <<file, fileResult, api, sftp, multi, disk, matched, failure>>

\* the state of the model layer (models/*.py)
dbVars == <<backend, bulk, sql, vendor_seq, nops>>

\* everything outside the import controller
\* the state of config/settings.py
cfgVars == <<config, user_file, setting>>

\* the state of the import views (views/import_view*.py)
uiVars == <<ui, threads, after_queue, reports>>

\* the schema and the rows the v1 controllers work on
schemaVars == <<db_tables, db_rows, dbinit, ctl>>

\* calls that run at the same time on one database
raceVars == <<savers, imports>>

\* the v1 controllers, the concurrent calls and the backend comparison
lateVars == <<schemaVars, raceVars, pair>>

extVars == <<dbVars, cfgVars, uiVars, lateVars>>

vars == <<pc, argVars, storeVars, procVars, procResult, result, readerVars,
          extVars>>

----------------------------------------------------------------------------
(* Python values *)

NONE == "NONE"
ZERO == "ZERO"

\* bool(v) for a scalar v
Truthy(v) == v \notin {"", NONE, ZERO}

\* an item that is no dict: `source_field in item` raises TypeError
NonDictItem == [k \in {"#int"} |-> "5"]

IsDict(item) == "#int" \notin DOMAIN item

Range(s) == {s[i] : i \in DOMAIN s}

----------------------------------------------------------------------------
(* Field mapper *)

\* `mapping` argument left out, None or {}
NoMapping == <<>>

DefaultMapping ==
    [sku         |-> <<"sku", "product_id", "item_number", "part_number", "id">>,
     name        |-> <<"name", "product_name", "title", "description">>,
     description |-> <<"description", "long_description", "details">>,
     price       |-> <<"price", "cost", "wholesale_price", "msrp">>,
     category    |-> <<"category", "product_type", "type">>,
     brand       |-> <<"brand", "manufacturer">>,
     upc         |-> <<"upc", "gtin", "ean", "barcode">>,
     weight      |-> <<"weight">>,
     dimensions  |-> <<"dimensions", "size">>,
     status      |-> <<"status", "availability", "is_active">>]

\* if not mapping: mapping = {...defaults...}
EffectiveMapping(m) == IF DOMAIN m = {} THEN DefaultMapping ELSE m

\* the inner loop over source_fields: index of the alias the loop breaks on,
\* 0 when it runs to the end without a match
RECURSIVE FirstMatch(_, _, _)
FirstMatch(item, source_fields, i) ==
    IF i > Len(source_fields) THEN 0
    ELSE IF source_fields[i] \in DOMAIN item /\ Truthy(item[source_fields[i]])
         THEN i
         ELSE FirstMatch(item, source_fields, i + 1)

\* the outer loop over mapping.items(): product_data
ApplyMapping(item, m) ==
    LET hit(t) == FirstMatch(item, m[t], 1)
        targets == {t \in DOMAIN m : hit(t) # 0}
    IN [t \in targets |-> item[m[t][hit(t)]]]

\* 'sku' not in product_data or not product_data['sku'] (likewise name)
MissingField(pd, f) ==
    f \notin DOMAIN pd \/ ~Truthy(pd[f])

\* product_data['vendor_id'] = vendor_id
WithVendor(pd, v) ==
    [k \in DOMAIN pd \cup {"vendor_id"} |->
        IF k = "vendor_id" THEN v ELSE pd[k]]

----------------------------------------------------------------------------
(* Catalog store consumed by the upsert loop: the controller calls of       *)
(* _process_mapped_data.                                                    *)

\* VendorController.get_by_id
get_by_id(vs, v) == v \in vs

\* ProductController.get_by_vendor_sku: the rows with that natural key
get_by_vendor_sku(st, v, sku) ==
    {r \in st : r.vendor_id = v /\ r.sku = sku}

\* ProductController.create: one new row with a generated identity
create(st, id, pd) ==
    st \cup {[id        |-> id,
              vendor_id |-> pd["vendor_id"],
              sku       |-> pd["sku"],
              data      |-> pd]}

\* ProductController.update: the row with that identity, in place
update(st, id, pd) ==
    {IF r.id # id THEN r
     ELSE [id        |-> r.id,
           vendor_id |-> pd["vendor_id"],
           sku       |-> pd["sku"],
           data      |-> [k \in DOMAIN r.data \cup DOMAIN pd |->
                            IF k \in DOMAIN pd
                            THEN pd[k] ELSE r.data[k]]]
     : r \in st}

RowsOf(st, v) == {r \in st : r.vendor_id = v}

----------------------------------------------------------------------------
(* _process_mapped_data: the per-record upsert loop *)

NoResult == [status |-> "none", count |-> 0, errors |-> <<>>]

Returned(c, e) == [status |-> "returned", count |-> c, errors |-> e]

\* the call ended by an exception leaving the function
Raised == [status |-> "raised", count |-> 0, errors |-> <<>>]

\* an entry of the `errors` list: the message (its kind) and the item it echoes
Error(kind, item) == [kind |-> kind, item |-> item]

\* the required-field checks with the check of name left out
ValidateSkuOnly(pd) ==
    IF MissingField(pd, "sku") THEN "missing_sku" ELSE "ok"

\* the two required-field checks, in the order of the code
Validate(pd) ==
    IF MissingField(pd, "sku") THEN "missing_sku"
    ELSE IF MissingField(pd, "name") THEN "missing_name"
    ELSE "ok"

\* the branch with the lookup's answer ignored: every record is inserted
UpsertBranchAlwaysCreate(existing) == "create"

\* if existing_product: update ... else: create ...
UpsertBranch(existing) == IF existing # {} THEN "update" ELSE "create"

\* existing_product.id (0, an identity no row has, when there is none)
ExistingId(existing) ==
    IF existing = {} THEN 0 ELSE (CHOOSE r \in existing : TRUE).id

\* the write with the create branch lost: an update whatever the lookup found
WriteUpdateOnly(st, id, existing, pd) ==
    update(st, ExistingId(existing), pd)

\* the store after the write the branch issues
Write(st, id, existing, pd) ==
    IF UpsertBranch(existing) = "update"
    THEN update(st, ExistingId(existing), pd)
    ELSE create(st, id, pd)

\* the handler re-raising: the loop is left at the first exception
AfterExceptionAbort(i, n) == n + 1

\* except Exception: append the error, go on with the next record
AfterException(i, n) == i + 1

\* One pass of the loop body for `item`.  `fault` is what the store does to
\* this record's calls: "none", or the call ("lookup", "write") that raises.
\* kind: what happened; pd: product_data as the pass leaves it; st, id: the
\* store after it; ops: the store calls made.
LoopBody(item, fault, st, id, v, m) ==
    IF ~IsDict(item)
    THEN [kind |-> "exception", pd |-> <<>>, st |-> st, id |-> id, ops |-> <<>>]
    ELSE
    LET mapped == ApplyMapping(item, EffectiveMapping(m))
        check == Validate(mapped)
        pd == WithVendor(mapped, v)
        existing == get_by_vendor_sku(st, v, pd["sku"])
        branch == UpsertBranch(existing)
    IN  IF check # "ok"
        THEN [kind |-> check, pd |-> mapped, st |-> st, id |-> id, ops |-> <<>>]
        ELSE IF fault = "lookup"
        THEN [kind |-> "exception", pd |-> pd, st |-> st, id |-> id,
              ops |-> <<[op |-> "get_by_vendor_sku", ok |-> FALSE]>>]
        ELSE IF fault = "write"
        THEN [kind |-> "exception", pd |-> pd, st |-> st, id |-> id,
              ops |-> <<[op |-> "get_by_vendor_sku", ok |-> TRUE],
                        [op |-> branch, ok |-> FALSE]>>]
        ELSE [kind |-> IF branch = "update" THEN "updated" ELSE "created",
              pd |-> pd,
              st |-> Write(st, id, existing, pd),
              id |-> IF branch = "update" THEN id ELSE id + 1,
              ops |-> <<[op |-> "get_by_vendor_sku", ok |-> TRUE],
                        [op |-> branch, ok |-> TRUE]>>]

Succeeded(kind) == kind \in {"created", "updated"}

\* calls that raised so far are counted, and at most MaxFaults of them happen
MaxFaults == 1

\* whether the next call of the store or the source may raise
MayFail == IF faults < MaxFaults THEN BOOLEAN ELSE {FALSE}

StoreFaults == IF faults < MaxFaults THEN {"none", "lookup", "write"} ELSE {"none"}

\* the function with the test of the vendor left out: the loop always starts
process_mapped_data_begin_unchecked ==
    /\ pc = "proc"
    /\ \E fault \in MayFail :
         /\ faults' = IF fault THEN faults + 1 ELSE faults
         /\ procResult' = IF fault THEN Raised ELSE procResult
         /\ pc' = IF fault THEN "proc_done" ELSE "loop"
         /\ idx' = IF fault THEN idx ELSE 1
    /\ imported_count' = 0
    /\ errors' = <<>>
    /\ outcome' = <<>>
    /\ oplog' = <<>>
    /\ UNCHANGED <<argVars, extVars, storeVars, data, product_data, written, result,
                   readerVars>>

\* vendor = VendorController.get_by_id(vendor_id); if not vendor: return ...
\* The lookup is outside the loop's try: when it raises, the call raises.
process_mapped_data_begin ==
    /\ pc = "proc"
    /\ \E fault \in MayFail :
         /\ faults' = IF fault THEN faults + 1 ELSE faults
         /\ IF fault
            THEN /\ procResult' = Raised
                 /\ pc' = "proc_done"
                 /\ idx' = idx
            ELSE IF ~get_by_id(vendors, vendor_id)
            THEN /\ procResult' = Returned(0, <<Error("vendor_not_found", <<>>)>>)
                 /\ pc' = "proc_done"
                 /\ idx' = idx
            ELSE /\ procResult' = procResult
                 /\ pc' = "loop"
                 /\ idx' = 1
    /\ imported_count' = 0
    /\ errors' = <<>>
    /\ outcome' = <<>>
    /\ oplog' = <<>>
    /\ UNCHANGED <<argVars, extVars, storeVars, data, product_data, written, result,
                   readerVars>>

\* for item in data: try: ... except Exception as e: errors.append(...)
process_item ==
    /\ pc = "loop"
    /\ idx <= Len(data)
    /\ \E fault \in StoreFaults :
         LET item == data[idx]
             step == LoopBody(item, fault, store, nextId, vendor_id, mapping)
         IN /\ store' = step.st
            /\ nextId' = step.id
            /\ imported_count' =
                 IF Succeeded(step.kind) THEN imported_count + 1
                 ELSE imported_count
            /\ errors' =
                 IF Succeeded(step.kind) THEN errors
                 ELSE Append(errors, Error(step.kind, item))
            /\ idx' = IF step.kind = "exception"
                      THEN AfterException(idx, Len(data)) ELSE idx + 1
            /\ product_data' = step.pd
            /\ outcome' = Append(outcome, step.kind)
            /\ written' = IF Succeeded(step.kind) THEN written + 1 ELSE written
            /\ faults' = IF \E i \in 1..Len(step.ops) : ~step.ops[i].ok
                         THEN faults + 1 ELSE faults
            /\ oplog' = oplog \o [i \in 1..Len(step.ops) |->
                                    [op |-> step.ops[i].op, ok |-> step.ops[i].ok,
                                     rec |-> idx]]
    /\ UNCHANGED <<pc, argVars, extVars, data, procResult, result, readerVars>>

\* return imported_count, errors
process_mapped_data_return ==
    /\ pc = "loop"
    /\ idx > Len(data)
    /\ procResult' = Returned(imported_count, errors)
    /\ pc' = "proc_done"
    /\ UNCHANGED <<argVars, extVars, storeVars, procVars, result, readerVars>>

----------------------------------------------------------------------------
(* Inputs of the upsert loop *)

MaxBatch == 2

Vendors == {"v1", "v2"}

Row(id, v, sku, name) ==
    [id |-> id, vendor_id |-> v, sku |-> sku,
     data |-> [sku |-> sku, name |-> name, vendor_id |-> v]]

InitialStores ==
    { {},
      {Row(2, "v2", "A", "Other"), Row(3, "v2", "B", "Other")},
      {Row(1, "v1", "A", "Old"), Row(2, "v2", "A", "Other"), Row(3, "v2", "B", "Other")} }

FirstFreeId == 4

RecA == [sku |-> "A", name |-> "N"]
RecB == [sku |-> "B", name |-> "M", region_qty |-> "7"]
RecAlias == [sku |-> "", product_id |-> "A", title |-> "T"]
RecNoSku == [name |-> "N", price |-> "9"]
RecNoName == [sku |-> "A", price |-> "9"]

RawRecords == {RecA, RecB, RecAlias, RecNoSku, RecNoName, NonDictItem}

\* the five-record batch whose third record lacks a name
FiveRecords ==
    << [sku |-> "S1", name |-> "N1"], [sku |-> "S2", name |-> "N2"],
       [sku |-> "S3", price |-> "9"],
       [sku |-> "S4", name |-> "N4"], [sku |-> "S5", name |-> "N5"] >>

Batches == UNION {[1..n -> RawRecords] : n \in 0..MaxBatch} \cup {FiveRecords}

CustomMapping == [sku |-> <<"product_id", "sku">>, name |-> <<"title", "name">>]

NoSource == [kind |-> "none"]

NoFile == [name |-> <<>>, exists |-> FALSE, readable |-> FALSE,
           header |-> <<>>, rows |-> <<>>, items |-> <<>>]

NoApi == [requests |-> <<>>, body |-> <<>>, all_data |-> <<>>]

NoSftp == [files |-> <<>>, i |-> 0, total_imported |-> 0, all_errors |-> <<>>,
           result |-> NoResult]

\* visited and results are history: the directories entered, and what each
\* contributed when it was left
NoMulti == [i |-> 0, total_imported |-> 0, all_errors |-> <<>>,
            visited |-> <<>>, results |-> <<>>]

\* the locals of a call that has not run yet
\* no bulk_insert is running
NoBulk == [vendor_id |-> NONE, products_data |-> <<>>, batch_size |-> 0,
           i |-> 0, total_inserted |-> 0, statements |-> <<>>,
           rows |-> {}, lastrowid |-> 0]

\* no model operation was called yet
NoSql == [op |-> "none", status |-> "none", value |-> 0]

\* config = {} until initialize_settings runs
EmptyConfig == <<>>

\* no file at CONFIG_PATH
NoUserFile == [exists |-> FALSE, valid |-> FALSE, content |-> EmptyConfig]

\* get_setting was not called yet
NoSetting == [key |-> <<>>, default |-> NONE, value |-> NONE, at |-> "none"]

\* the settings module as imported
InitSettingsIdle ==
    /\ config = EmptyConfig
    /\ user_file = NoUserFile
    /\ setting = NoSetting

\* no import frame is open
NoFrame == [frame |-> "none", import_button |-> "normal",
            import_in_progress |-> FALSE, status |-> "none"]

InitUiIdle ==
    /\ ui = NoFrame
    /\ threads = <<>>
    /\ after_queue = <<>>
    /\ reports = <<>>

\* the model layer at rest
InitDbIdle ==
    /\ backend = "sqlite"
    /\ bulk = NoBulk
    /\ sql = NoSql
    /\ vendor_seq = 0
    /\ nops = 0

\* the tables of the schema
TableNames == {"vendors", "products", "master_products", "vendor_products",
               "categories"}

\* a table that does not exist
Absent == [columns |-> <<>>, unique |-> {}, refs |-> {}, id_default |-> FALSE]

\* an empty database
NoTables == [t \in TableNames |-> Absent]
NoRows == [t \in {"vendors", "products", "vendor_products"} |-> {}]

\* initialize_database was not called yet
NoInit == [status |-> "idle", db_type |-> "none", order |-> <<>>, i |-> 0,
           created |-> <<>>, from_empty |-> FALSE]

\* no controller was called yet
NoCall == [op |-> "none", id |-> NONE, args |-> <<>>, status |-> "none",
           before |-> NoRows]

\* no bulk input was handed to the two backends yet
NoPair == [status |-> "none"]

\* the v1 controllers at rest, no concurrent call, no comparison
InitLateIdle ==
    /\ db_tables = NoTables
    /\ db_rows = NoRows
    /\ dbinit = NoInit
    /\ ctl = NoCall
    /\ savers = <<>>
    /\ imports = <<>>
    /\ pair = NoPair

\* everything outside the import controller at rest
InitIdle ==
    /\ InitDbIdle
    /\ InitSettingsIdle
    /\ InitUiIdle
    /\ InitLateIdle

InitLocals ==
    /\ idx = 0
    /\ imported_count = 0
    /\ errors = <<>>
    /\ product_data = <<>>
    /\ procResult = NoResult
    /\ result = NoResult
    /\ fileResult = NoResult
    /\ outcome = <<>>
    /\ oplog = <<>>
    /\ written = 0
    /\ faults = 0
    /\ api = NoApi
    /\ sftp = NoSftp
    /\ multi = NoMulti
    /\ disk = {}
    /\ matched = FALSE
    /\ failure = <<>>

InitUpsert ==
    /\ pc = "proc"
    /\ entry = "process"
    /\ vendors = Vendors
    /\ store \in InitialStores
    /\ nextId = FirstFreeId
    /\ vendor_id \in {"v1", "v9"}
    /\ mapping \in {NoMapping, CustomMapping}
    /\ data \in Batches
    /\ src = NoSource
    /\ file = NoFile
    /\ InitLocals
    /\ InitIdle

NextUpsert ==
    \/ process_mapped_data_begin
    \/ process_item
    \/ process_mapped_data_return

SpecUpsert == InitUpsert /\ [][NextUpsert]_vars

----------------------------------------------------------------------------
(* Vocabulary of the properties of the upsert loop *)

\* a value that is present and not empty
NonEmpty(v) == v \notin {"", NONE}

\* item holds a non-empty value under some alias of destination field f
HasValueUnder(item, m, f) ==
    /\ f \in DOMAIN m
    /\ \E i \in 1..Len(m[f]) : m[f][i] \in DOMAIN item /\ NonEmpty(item[m[f][i]])

\* keys of item that the mapping names nowhere as an alias
UnmappedKeys(item, m) == DOMAIN item \ UNION {Range(m[t]) : t \in DOMAIN m}

Last(s) == s[Len(s)]

\* the errors of the first k records, in record order, given what happened to each
RECURSIVE ErrorsUpTo(_, _, _)
ErrorsUpTo(d, oc, k) ==
    IF k = 0 THEN <<>>
    ELSE LET prev == ErrorsUpTo(d, oc, k - 1)
         IN IF Succeeded(oc[k]) THEN prev ELSE Append(prev, Error(oc[k], d[k]))

NoStoreFault == \A i \in 1..Len(oplog) : oplog[i].ok

\* the loop is at a record of the batch
AtRecord == pc = "loop" /\ idx <= Len(data)

\* the record the loop is at passes both required-field checks
AtValidRecord ==
    /\ AtRecord
    /\ IsDict(data[idx])
    /\ Validate(ApplyMapping(data[idx], EffectiveMapping(mapping))) = "ok"

CurrentSku == ApplyMapping(data[idx], EffectiveMapping(mapping))["sku"]

\* the rows of the target vendor that carry the current record's sku
CurrentMatch == {r \in store : r.vendor_id = vendor_id /\ r.sku = CurrentSku}

Ids(st) == {r.id : r \in st}

(* C1: for an existing vendor, a record that fails validation, or whose     *)
(* lookup or write raises, never aborts the batch: every later record is    *)
(* still handled, and the returned (count, errors) has count + len(errors)  *)
(* = n with the errors in record order.  Five records of which only the     *)
(* third lacks a name give (4, [one error echoing record 3]).               *)
C1_NoAbort ==
    /\ pc = "loop" =>
         /\ Len(outcome) = idx - 1
         /\ imported_count + Len(errors) = idx - 1
    /\ (pc = "proc_done" /\ get_by_id(vendors, vendor_id)) =>
         /\ procResult.status = "raised" => outcome = <<>>
         /\ procResult.status = "returned" =>
              /\ Len(outcome) = Len(data)
              /\ procResult.count + Len(procResult.errors) = Len(data)
              /\ procResult.errors = ErrorsUpTo(data, outcome, Len(data))
              /\ (data = FiveRecords /\ NoStoreFault) =>
                   procResult = Returned(4, <<Error("missing_name", FiveRecords[3])>>)

\* a store call raised for one record and the next record was still written
C1_Witness ==
    /\ pc = "proc_done"
    /\ procResult.status = "returned"
    /\ \E i \in 1..(Len(outcome) - 1) :
         /\ outcome[i] = "exception"
         /\ \E j \in 1..Len(oplog) : oplog[j].rec = i /\ ~oplog[j].ok
         /\ Succeeded(outcome[i + 1])

(* C2: a raw record with no non-empty value under any alias of sku (or of   *)
(* name) is rejected: exactly one error is appended for it, the success     *)
(* count is not incremented, and no lookup, insert or update is issued, so  *)
(* the store is unchanged by it.                                            *)
C2_RejectedNotWritten ==
    [][ ( /\ AtRecord
          /\ IsDict(data[idx])
          /\ \/ ~HasValueUnder(data[idx], EffectiveMapping(mapping), "sku")
             \/ ~HasValueUnder(data[idx], EffectiveMapping(mapping), "name") )
        => /\ store' = store
           /\ nextId' = nextId
           /\ oplog' = oplog
           /\ imported_count' = imported_count
           /\ \E kind \in {"missing_sku", "missing_name"} :
                errors' = Append(errors, Error(kind, data[idx]))
           /\ idx' = idx + 1
      ]_vars

\* a record without any sku alias, and one without any name alias, were rejected
C2_Witness ==
    /\ \E i \in 1..Len(outcome) :
         /\ outcome[i] = "missing_sku"
         /\ ~HasValueUnder(data[i], EffectiveMapping(mapping), "sku")
    /\ \E i \in 1..Len(outcome) :
         /\ outcome[i] = "missing_name"
         /\ ~HasValueUnder(data[i], EffectiveMapping(mapping), "name")

(* C3: for a validated record whose sku equals the sku of a row that exists *)
(* for the target vendor, the upsert updates that row in place and keeps    *)
(* its id: the vendor's row count is the same before and after, no new row  *)
(* is created, and no other row (of this or another vendor) is modified.    *)
(* When the store raises on the lookup or the update, nothing is written.   *)
C3_UpdateInPlace ==
    [][ (AtValidRecord /\ CurrentMatch # {})
        => LET r == CHOOSE x \in CurrentMatch : TRUE
               mapped == ApplyMapping(data[idx], EffectiveMapping(mapping))
           IN /\ Ids(store') = Ids(store)
              /\ Cardinality(RowsOf(store', vendor_id))
                   = Cardinality(RowsOf(store, vendor_id))
              /\ \A x \in store : x.id # r.id => x \in store'
              /\ Last(outcome') \in {"updated", "exception"}
              /\ Last(outcome') = "updated" =>
                   /\ imported_count' = imported_count + 1
                   /\ \E y \in store' :
                        /\ y.id = r.id
                        /\ y.vendor_id = vendor_id
                        /\ y.sku = r.sku
                        /\ \A k \in DOMAIN mapped : y.data[k] = mapped[k]
              /\ Last(outcome') = "exception" =>
                   /\ store' = store
                   /\ ~Last(oplog').ok
      ]_vars

\* the existing row 1 of vendor v1 was updated by a record of the batch
C3_Witness ==
    /\ Len(outcome) > 0
    /\ Last(outcome) = "updated"
    /\ vendor_id = "v1"
    /\ \E y \in store : y.id = 1 /\ y.data["name"] # "Old"
    /\ Ids(store) \subseteq 1..3

(* C4: for a validated record whose sku matches no row of the target        *)
(* vendor, the upsert creates exactly one new row: the vendor's row count   *)
(* and the success count each grow by one and every row that existed is     *)
(* unchanged.  When the store raises on the lookup or the insert, nothing   *)
(* is written and the record is reported as an error.                       *)
C4_InsertOne ==
    [][ (AtValidRecord /\ CurrentMatch = {})
        => /\ Last(outcome') \in {"created", "exception"}
           /\ Last(outcome') = "created" =>
                /\ Cardinality(RowsOf(store', vendor_id))
                     = Cardinality(RowsOf(store, vendor_id)) + 1
                /\ Cardinality(store') = Cardinality(store) + 1
                /\ store \subseteq store'
                /\ \A y \in store' \ store :
                     y.vendor_id = vendor_id /\ y.sku = CurrentSku /\ y.id \notin Ids(store)
                /\ imported_count' = imported_count + 1
           /\ Last(outcome') = "exception" =>
                /\ store' = store
                /\ imported_count' = imported_count
                /\ ~Last(oplog').ok
      ]_vars

\* a record was inserted for a vendor that already had rows
C4_Witness ==
    /\ Len(outcome) > 0
    /\ Last(outcome) = "created"
    /\ \E y \in store : y.id >= FirstFreeId /\ y.vendor_id = vendor_id
    /\ \E y \in store : y.id < FirstFreeId /\ y.vendor_id = vendor_id

(* C6: every key of a raw record that the mapping does not name as an alias *)
(* is carried, value unchanged, into the canonical record's property bag    *)
(* and so reaches the stored row.                                           *)
C6_PropertyBagKept ==
    [][ AtValidRecord
        => (Succeeded(Last(outcome')) =>
              \E y \in store' :
                 /\ y.vendor_id = vendor_id
                 /\ y.sku = CurrentSku
                 /\ \A k \in UnmappedKeys(data[idx], EffectiveMapping(mapping)) :
                      k \in DOMAIN y.data /\ y.data[k] = data[idx][k])
      ]_vars

----------------------------------------------------------------------------
(* The field mapper on its own: lines 375-381 applied to one raw record *)

\* the mapping step of one pass of the loop, for the record data[1]
apply_mapping ==
    /\ pc = "map"
    /\ product_data' = ApplyMapping(data[1], EffectiveMapping(mapping))
    /\ pc' = "mapped"
    /\ UNCHANGED <<argVars, extVars, storeVars, data, idx, imported_count, errors, outcome,
                   oplog, written, faults, procResult, result, readerVars>>

\* keys a raw record of the mapper's inputs may hold: aliases of sku (first,
\* second and last of the default list), of name (description is also the
\* first alias of description), and one key no mapping names
MapperKeys == {"sku", "product_id", "id", "name", "description", "region_qty"}

MapperValues == {"", NONE, ZERO, "x", "y"}

MapperItems == UNION {[S -> MapperValues] : S \in SUBSET MapperKeys}

InitMapper ==
    /\ pc = "map"
    /\ entry = "process"
    /\ vendors = Vendors
    /\ store = {}
    /\ nextId = FirstFreeId
    /\ vendor_id = "v1"
    /\ mapping \in {NoMapping, CustomMapping}
    /\ \E item \in MapperItems : data = <<item>>
    /\ src = NoSource
    /\ file = NoFile
    /\ InitLocals
    /\ InitIdle

NextMapper == apply_mapping

SpecMapper == InitMapper /\ [][NextMapper]_vars

\* the aliases of destination field t, by position, under which item holds a
\* non-empty value
ValuedAliases(item, m, t) ==
    {i \in 1..Len(m[t]) : m[t][i] \in DOMAIN item /\ NonEmpty(item[m[t][i]])}

Min(S) == CHOOSE x \in S : \A y \in S : x <= y

(* C5: first alias wins: for every destination field of the mapping the     *)
(* canonical value is the value of the first alias, in list order, that is  *)
(* present in the raw record with a non-empty value; an alias that is       *)
(* present but empty is skipped and no later alias overrides an earlier     *)
(* match.  With the default mapping and non-empty sku and product_id, the   *)
(* canonical sku is the value of sku.                                       *)
C5_FirstAliasWins ==
    pc = "mapped" =>
        LET item == data[1]
            m == EffectiveMapping(mapping)
        IN /\ \A t \in DOMAIN m :
                LET valued == ValuedAliases(item, m, t)
                IN IF valued = {}
                   THEN t \notin DOMAIN product_data
                   ELSE /\ t \in DOMAIN product_data
                        /\ product_data[t] = item[m[t][Min(valued)]]
           /\ ( /\ mapping = NoMapping
                /\ {"sku", "product_id"} \subseteq DOMAIN item
                /\ NonEmpty(item["sku"])
                /\ NonEmpty(item["product_id"]) )
              => ("sku" \in DOMAIN product_data /\ product_data["sku"] = item["sku"])

\* C5 with "non-empty" read as "true in Python": the alias the loop breaks on
\* is the first one holding a true value
C5_FirstTrueAliasWins ==
    pc = "mapped" =>
        LET item == data[1]
            m == EffectiveMapping(mapping)
        IN \A t \in DOMAIN m :
             LET valued == {i \in 1..Len(m[t]) :
                              m[t][i] \in DOMAIN item /\ Truthy(item[m[t][i]])}
             IN IF valued = {}
                THEN t \notin DOMAIN product_data
                ELSE /\ t \in DOMAIN product_data
                     /\ product_data[t] = item[m[t][Min(valued)]]

----------------------------------------------------------------------------
(* import_from_file and the file readers.  A file name is the sequence of   *)
(* its characters.  A file is what the reader finds at the path: whether it *)
(* exists, whether its bytes decode and parse, and its content: a header    *)
(* row and data rows of cells for csv.DictReader, and for the JSON, XML and *)
(* Excel readers the list of items their parse yields.                      *)

Max(S) == CHOOSE x \in S : \A y \in S : y <= x

\* str.lower(), on the characters file names use here
Lower(c) ==
    CASE c = "C" -> "c" [] c = "S" -> "s" [] c = "V" -> "v" [] OTHER -> c

\* os.path.splitext(path)[1].lower(): from the last dot, unless only dots
\* precede it
FileExt(name) ==
    LET dots == {i \in 1..Len(name) :
                   name[i] = "." /\ \E j \in 1..(i - 1) : name[j] # "."}
    IN IF dots = {} THEN <<>>
       ELSE [i \in 1..(Len(name) - Max(dots) + 1) |-> Lower(name[Max(dots) + i - 1])]

ExtCsv == <<".", "c", "s", "v">>
ExtJson == <<".", "j", "s", "o", "n">>
ExtXml == <<".", "x", "m", "l">>
ExtXlsx == <<".", "x", "l", "s", "x">>
ExtXls == <<".", "x", "l", "s">>

\* the dict csv.DictReader builds for one row: zip(fieldnames, row), cells
\* beyond the header under restkey, header names beyond the row as restval
RowDict(header, row) ==
    [k \in Range(header) \cup (IF Len(row) > Len(header) THEN {"#restkey"} ELSE {}) |->
        IF k \notin Range(header) THEN "extra"
        ELSE LET j == Max({i \in 1..Len(header) : header[i] = k})
             IN IF j <= Len(row) THEN row[j] ELSE NONE]

\* a reader that loses the first data row (it is taken for a second header)
DictReaderSkipFirst(header, rows) ==
    LET kept == SelectSeq(rows, LAMBDA r : r # <<>>)
    IN [i \in 1..(Len(kept) - 1) |-> RowDict(header, kept[i + 1])]

\* list(csv.DictReader(f)): one dict per row that is not blank
DictReader(header, rows) ==
    LET kept == SelectSeq(rows, LAMBDA r : r # <<>>)
    IN [i \in 1..Len(kept) |-> RowDict(header, kept[i])]

\* what the reader chosen by the extension does before it calls
\* _process_mapped_data: "unsupported", "not_found", "failed", or "items"
ReadFile(f) ==
    LET ext == FileExt(f.name)
    IN IF ext \notin {ExtCsv, ExtXlsx, ExtXls, ExtJson, ExtXml}
       THEN [how |-> "unsupported", items |-> <<>>]
       ELSE IF ~f.exists THEN [how |-> "not_found", items |-> <<>>]
       ELSE IF ~f.readable THEN [how |-> "failed", items |-> <<>>]
       ELSE IF ext = ExtCsv
       THEN [how |-> "items", items |-> DictReader(f.header, f.rows)]
       ELSE [how |-> "items", items |-> f.items]

\* a helper's `except Exception` letting the exception through
FileCatchNone(r) == r

\* except Exception as e: return 0, [f"Error importing from ...: {str(e)}"]
FileCatch(r) ==
    IF r.status = "raised" THEN Returned(0, <<Error("import_error", <<>>)>>) ELSE r

\* import_from_file up to the helper's call of _process_mapped_data
import_from_file ==
    /\ pc = "file"
    /\ LET r == ReadFile(file)
       IN IF r.how = "items"
          THEN /\ data' = r.items
               /\ pc' = "proc"
               /\ UNCHANGED <<fileResult, result, failure>>
          ELSE /\ fileResult' = Returned(0, <<Error(r.how, file.name)>>)
               /\ result' = IF entry = "file" THEN fileResult' ELSE result
               /\ pc' = IF entry = "file" THEN "done" ELSE "file_done"
               /\ data' = data
               /\ failure' = IF r.how \in {"not_found", "failed"}
                              THEN Append(failure, r.how) ELSE failure
    /\ UNCHANGED <<argVars, extVars, storeVars, idx, imported_count, errors, product_data,
                   outcome, oplog, written, faults, procResult, file, api, sftp,
                   multi, disk, matched>>

\* the helper returns what _process_mapped_data returned, or catches what it
\* raised; import_from_file returns that
import_from_file_return ==
    /\ pc = "proc_done"
    /\ entry \in {"file", "sftp", "multi"}
    /\ fileResult' = FileCatch(procResult)
    /\ result' = IF entry = "file" THEN fileResult' ELSE result
    /\ pc' = IF entry = "file" THEN "done" ELSE "file_done"
    /\ UNCHANGED <<argVars, extVars, storeVars, procVars, procResult, file, api, sftp,
                   multi, disk, matched, failure>>

MaxRows == 3

NameCsv == <<"f", ".", "c", "s", "v">>
NameCsvUpper == <<"f", ".", "C", "S", "V">>
NameTxt == <<"f", ".", "t", "x", "t">>
NameJson == <<"f", ".", "j", "s", "o", "n">>

HeaderSkuNamePrice == <<"sku", "name", "price">>

CsvRows == { <<"A", "N", "9">>, <<"B", "M", "">>, <<"C", "N", "9">>,
             <<"", "N", "9">>, <<"A", "", "9">>, <<"D">> }

CsvFile(name, header, rows) ==
    [name |-> name, exists |-> TRUE, readable |-> TRUE,
     header |-> header, rows |-> rows, items |-> <<>>]

\* a path with no file, and a file whose bytes do not decode
MissingFile(name) == [NoFile EXCEPT !.name = name]
BrokenFile(name) == [NoFile EXCEPT !.name = name, !.exists = TRUE]

CsvFiles ==
    {CsvFile(NameCsv, HeaderSkuNamePrice, rows) :
        rows \in UNION {[1..n -> CsvRows] : n \in 0..MaxRows}}
    \cup {CsvFile(NameCsv, <<"name", "sku">>, <<<<"N", "B">>, <<>>, <<"M", "C", "9">>>>),
          CsvFile(NameCsv, <<"sku", "sku", "name">>, <<<<"B", "C", "N">>, <<"B">>>>),
          CsvFile(NameCsvUpper, HeaderSkuNamePrice, <<<<"B", "M", "">>>>),
          CsvFile(NameTxt, HeaderSkuNamePrice, <<<<"B", "M", "">>>>),
          MissingFile(NameCsv), BrokenFile(NameCsv)}

InitFile ==
    /\ pc = "file"
    /\ entry = "file"
    /\ vendors = Vendors
    /\ store \in InitialStores
    /\ nextId = FirstFreeId
    /\ vendor_id \in {"v1", "v9"}
    /\ mapping = NoMapping
    /\ data = <<>>
    /\ src = NoSource
    /\ InitLocals
    /\ InitIdle
    /\ file \in CsvFiles

NextFile ==
    \/ import_from_file
    \/ process_mapped_data_begin
    \/ process_item
    \/ process_mapped_data_return
    \/ import_from_file_return

SpecFile == InitFile /\ [][NextFile]_vars

\* the file is a readable .csv file with header sku,name,price whose rows
\* each hold a non-empty sku and a non-empty name, the skus all different
CleanCsv(f) ==
    /\ FileExt(f.name) = ExtCsv
    /\ f.exists /\ f.readable
    /\ f.header = HeaderSkuNamePrice
    /\ \A i \in 1..Len(f.rows) :
         /\ Len(f.rows[i]) = 3
         /\ NonEmpty(f.rows[i][1])
         /\ NonEmpty(f.rows[i][2])
    /\ \A i, j \in 1..Len(f.rows) : f.rows[i][1] = f.rows[j][1] => i = j

\* rows the table held before the call (their identities were given before it)
OldRows == {r \in store : r.id < FirstFreeId}

NewRows == {r \in store : r.id >= FirstFreeId}

(* C7: importing through import_from_file a .csv file with header           *)
(* sku,name,price and n data rows of distinct non-empty sku and non-empty   *)
(* name, into an existing vendor that has no row with any of those skus,    *)
(* returns (n, []) and leaves exactly n new rows for that vendor.  (The     *)
(* store answers every call: no lookup or write raises.)                    *)
C7_CsvRoundTrip ==
    ( /\ pc = "done"
      /\ entry = "file"
      /\ mapping = NoMapping
      /\ CleanCsv(file)
      /\ get_by_id(vendors, vendor_id)
      /\ \A r \in OldRows :
           r.vendor_id = vendor_id => \A i \in 1..Len(file.rows) : r.sku # file.rows[i][1]
      /\ procResult.status = "returned"
      /\ NoStoreFault )
    => /\ result = Returned(Len(file.rows), <<>>)
       /\ Cardinality(NewRows) = Len(file.rows)
       /\ \A r \in NewRows : r.vendor_id = vendor_id
       /\ {r.sku : r \in NewRows} = {file.rows[i][1] : i \in 1..Len(file.rows)}
       /\ \A i \in 1..Len(file.rows) :
            \E r \in NewRows :
               /\ r.sku = file.rows[i][1]
               /\ r.data["name"] = file.rows[i][2]

\* three rows were imported from a clean file into a vendor that had rows
C7_Witness ==
    /\ pc = "done"
    /\ entry = "file"
    /\ CleanCsv(file)
    /\ Len(file.rows) = 3
    /\ result = Returned(3, <<>>)
    /\ Cardinality(NewRows) = 3
    /\ OldRows # {}

----------------------------------------------------------------------------
(* _matches_pattern (lines 466-481).  File names and patterns are sequences *)
(* of characters.                                                           *)

\* s[a:b] for 0 <= a, counted from the left, b counted from the left
Slice(s, a, b) == SubSeq(s, a + 1, b)

\* str.startswith and str.endswith
startswith(s, prefix) ==
    Len(prefix) <= Len(s) /\ SubSeq(s, 1, Len(prefix)) = prefix

endswith(s, suffix) ==
    Len(suffix) <= Len(s) /\ SubSeq(s, Len(s) - Len(suffix) + 1, Len(s)) = suffix

\* `sub in s` on strings
contains(s, sub) ==
    \E i \in 0..(Len(s) - Len(sub)) : SubSeq(s, i + 1, i + Len(sub)) = sub

Star == <<"*">>

\* a matcher that reads every starred pattern as "contains"
matches_pattern_contains(filename, pattern) ==
    IF pattern = Star THEN TRUE
    ELSE IF startswith(pattern, Star) /\ endswith(pattern, Star)
    THEN contains(filename, Slice(pattern, 1, Len(pattern) - 1))
    ELSE IF startswith(pattern, Star)
    THEN contains(filename, Slice(pattern, 1, Len(pattern)))
    ELSE IF endswith(pattern, Star)
    THEN contains(filename, Slice(pattern, 0, Len(pattern) - 1))
    ELSE filename = pattern

\* _matches_pattern(filename, pattern), case by case in the code's order
matches_pattern(filename, pattern) ==
    IF pattern = Star THEN TRUE
    ELSE IF startswith(pattern, Star) /\ endswith(pattern, Star)
    THEN contains(filename, Slice(pattern, 1, Len(pattern) - 1))
    ELSE IF startswith(pattern, Star)
    THEN endswith(filename, Slice(pattern, 1, Len(pattern)))
    ELSE IF endswith(pattern, Star)
    THEN startswith(filename, Slice(pattern, 0, Len(pattern) - 1))
    ELSE filename = pattern

\* one call of _matches_pattern on the name and the pattern of src
call_matches_pattern ==
    /\ pc = "match"
    /\ matched' = matches_pattern(src.filename, src.pattern)
    /\ pc' = "matched"
    /\ UNCHANGED <<argVars, extVars, storeVars, procVars, procResult, result, file,
                   fileResult, api, sftp, multi, disk, failure>>

\* names and patterns are at most MaxLen characters of PatternChars, and
\* the names and patterns of the SFTP examples are added to them
MaxLen == 3

PatternChars == {"*", "a", "b"}

ShortStrings == UNION {[1..n -> PatternChars] : n \in 0..MaxLen}

ReportCsv == <<"r", "e", "p", "o", "r", "t", ".", "c", "s", "v">>
ReportCsvBak == ReportCsv \o <<".", "b", "a", "k">>
Data2024Json == <<"d", "a", "t", "a", "_", "2", "0", "2", "4", ".", "j", "s", "o", "n">>
Q1SalesFinalCsv ==
    <<"q", "1", "_", "s", "a", "l", "e", "s", "_", "f", "i", "n", "a", "l", ".", "c", "s", "v">>
StarCsv == <<"*", ".", "c", "s", "v">>
DataStar == <<"d", "a", "t", "a", "_", "*">>
StarSalesStar == <<"*", "s", "a", "l", "e", "s", "*">>

ExampleNames == {ReportCsv, ReportCsvBak, Data2024Json, Q1SalesFinalCsv}
ExamplePatterns == {StarCsv, DataStar, StarSalesStar}

PatternSource(filename, pattern) ==
    [kind |-> "pattern", filename |-> filename, pattern |-> pattern]

InitPattern ==
    /\ pc = "match"
    /\ entry = "matches_pattern"
    /\ vendors = Vendors
    /\ store = {}
    /\ nextId = FirstFreeId
    /\ vendor_id = "v1"
    /\ mapping = NoMapping
    /\ data = <<>>
    /\ file = NoFile
    /\ InitLocals
    /\ InitIdle
    /\ \E f \in ShortStrings \cup ExampleNames, p \in ShortStrings \cup ExamplePatterns :
         src = PatternSource(f, p)

NextPattern == call_matches_pattern

SpecPattern == InitPattern /\ [][NextPattern]_vars

\* name = u \o x for some u, name = x \o u for some u, name = u \o x \o w
EndsIn(name, x) ==
    \E k \in 0..Len(name) : name = SubSeq(name, 1, k) \o x

StartsIn(name, x) ==
    \E k \in 0..Len(name) : name = x \o SubSeq(name, k + 1, Len(name))

Holds(name, x) ==
    \E k \in 0..Len(name) : \E l \in k..Len(name) :
       name = SubSeq(name, 1, k) \o x \o SubSeq(name, l + 1, Len(name))

\* the form of a pattern: '*', '*X*', '*X', 'X*' or any other, a pattern
\* starting and ending with a star being of the form '*X*'
PatternForm(p) ==
    IF p = Star THEN "star"
    ELSE IF Len(p) >= 2 /\ p[1] = "*" /\ p[Len(p)] = "*" THEN "inside"
    ELSE IF Len(p) >= 1 /\ p[1] = "*" THEN "suffix"
    ELSE IF Len(p) >= 1 /\ p[Len(p)] = "*" THEN "prefix"
    ELSE "other"

(* C9: '*' matches every name; '*X' matches exactly the names ending in X;  *)
(* 'X*' exactly the names starting with X; '*X*' exactly the names          *)
(* containing X; any other pattern matches only the identical name.  Hence  *)
(* '*.csv' matches report.csv and not report.csv.bak, 'data_*' matches      *)
(* data_2024.json, and '*sales*' matches q1_sales_final.csv.                *)
C9_GlobForms ==
    pc = "matched" =>
       LET p == src.pattern
           f == src.filename
           n == Len(p)
       IN /\ PatternForm(p) = "star" => matched
          /\ PatternForm(p) = "suffix" => (matched <=> EndsIn(f, SubSeq(p, 2, n)))
          /\ PatternForm(p) = "prefix" => (matched <=> StartsIn(f, SubSeq(p, 1, n - 1)))
          /\ PatternForm(p) = "inside" => (matched <=> Holds(f, SubSeq(p, 2, n - 1)))
          /\ PatternForm(p) = "other" => (matched <=> f = p)
          /\ (p = StarCsv /\ f = ReportCsv) => matched
          /\ (p = StarCsv /\ f = ReportCsvBak) => ~matched
          /\ (p = DataStar /\ f = Data2024Json) => matched
          /\ (p = StarSalesStar /\ f = Q1SalesFinalCsv) => matched

\* '*.csv' was tried on report.csv.bak and did not match
C9_Witness ==
    /\ pc = "matched"
    /\ src.pattern = StarCsv
    /\ src.filename = ReportCsvBak
    /\ ~matched

----------------------------------------------------------------------------
(* import_from_api (lines 61-115) and its helpers _extract_items,           *)
(* _has_next_page and _get_next_page_url (lines 418-464).  A dot path is    *)
(* the sequence of its keys, the empty path being <<>>.  A JSON document is *)
(* a function from the paths of its values to nodes, the document itself at *)
(* <<>>; a node is tagged with its Python type: a dict (its values are the  *)
(* nodes one key further), a list of raw records, a string or None.  The    *)
(* server is a function from URLs to responses.                             *)

JObj == [t |-> "obj", s |-> "", l |-> <<>>]
JList(items) == [t |-> "list", s |-> "", l |-> items]
JStr(s) == [t |-> "str", s |-> s, l |-> <<>>]
JNull == [t |-> "null", s |-> "", l |-> <<>>]

\* `key in current`, current being the value of doc at path p: membership
\* of a key in a dict; no element of a list of records and no URL holds a
\* key; None is not iterable (TypeError)
KeyIn(key, doc, p) ==
    CASE doc[p].t = "obj" -> IF Append(p, key) \in DOMAIN doc THEN "yes" ELSE "no"
      [] doc[p].t = "null" -> "raise"
      [] OTHER -> "no"

\* for key in parts[i:last]: if key in current: current = current[key]
\* else: return
RECURSIVE Walk(_, _, _, _, _)
Walk(doc, p, parts, i, last) ==
    IF i > last THEN [how |-> "found", p |-> p]
    ELSE LET has == KeyIn(parts[i], doc, p)
         IN IF has = "yes" THEN Walk(doc, Append(p, parts[i]), parts, i + 1, last)
            ELSE [how |-> IF has = "raise" THEN "raise" ELSE "absent", p |-> p]

\* the value of doc at p as a raw record of the loop
ItemOf(doc, p) ==
    IF doc[p].t = "obj"
    THEN LET keys == {q[Len(q)] : q \in {r \in DOMAIN doc :
                         Len(r) = Len(p) + 1 /\ SubSeq(r, 1, Len(p)) = p}}
         IN [k \in keys |->
               CASE doc[Append(p, k)].t = "str" -> doc[Append(p, k)].s
                 [] doc[Append(p, k)].t = "null" -> NONE
                 [] OTHER -> "#nested"]
    ELSE NonDictItem

\* return current if isinstance(current, list) else [current]
AsList(doc, p) == IF doc[p].t = "list" THEN doc[p].l ELSE <<ItemOf(doc, p)>>

\* _extract_items(data, items_path)
extract_items(doc, items_path) ==
    IF items_path = <<>> THEN [how |-> "ok", items |-> AsList(doc, <<>>)]
    ELSE LET w == Walk(doc, <<>>, items_path, 1, Len(items_path))
         IN CASE w.how = "raise" -> [how |-> "raise", items |-> <<>>]
              [] w.how = "absent" -> [how |-> "ok", items |-> <<>>]
              [] OTHER -> [how |-> "ok", items |-> AsList(doc, w.p)]

\* _has_next_page(data, next_page_path): "yes", "no", or "raise" (TypeError)
has_next_page(doc, next_page_path) ==
    IF next_page_path = <<>> THEN "no"
    ELSE LET n == Len(next_page_path)
             w == Walk(doc, <<>>, next_page_path, 1, n - 1)
         IN CASE w.how = "raise" -> "raise"
              [] w.how = "absent" -> "no"
              [] OTHER ->
                   LET has == KeyIn(next_page_path[n], doc, w.p)
                   IN IF has # "yes" THEN has
                      ELSE IF doc[Append(w.p, next_page_path[n])].t # "null"
                      THEN "yes" ELSE "no"

\* _get_next_page_url(data, next_page_path), called when _has_next_page holds
get_next_page_url(doc, next_page_path) ==
    IF next_page_path = <<>> THEN JStr("")
    ELSE LET w == Walk(doc, <<>>, next_page_path, 1, Len(next_page_path))
         IN IF w.how = "found" THEN doc[w.p] ELSE JStr("")

\* the document that is one value
Doc(node) == [p \in {<<>>} |-> node]

\* requests.get(url): the server's response, a transport failure when no
\* server answers at url (or url is no URL)
NoAnswer == [status |-> "transport", body |-> Doc(JNull)]

Get(server, url) ==
    IF url.t = "str" /\ url.s \in DOMAIN server THEN server[url.s] ELSE NoAnswer

\* the except clause a failed response ends in: requests.RequestException for
\* a transport failure and an HTTP error status; for a body that is not JSON
\* the first or the second clause, by the version of requests
ApiErrorKinds(status) ==
    CASE status = "ok" -> {"none"}
      [] status = "not_json" -> {"api_request_failed", "api_invalid_json"}
      [] OTHER -> {"api_request_failed"}

\* except Exception as e: return 0, [f"Unexpected error during API import..."]
ApiCatch(r) ==
    IF r.status = "raised" THEN Returned(0, <<Error("api_unexpected_error", <<>>)>>) ELSE r

\* requests are counted, and at most MaxRequests of them are sent
MaxRequests == 3

\* what the URL of a request is logged as
Requested(url) == IF url.t = "str" THEN url.s ELSE "#nourl"

\* one GET with raise_for_status and response.json(), then _extract_items;
\* the state after it, given the items gathered before
AfterGet(server, url, gathered, kind) ==
    LET resp == Get(server, url)
        ex == extract_items(resp.body, src.items_path)
    IN IF resp.status # "ok"
       THEN [pc |-> "done", result |-> Returned(0, <<Error(kind, <<>>)>>),
             body |-> api.body, all_data |-> gathered, failed |-> <<resp.status>>]
       ELSE IF ex.how = "raise"
       THEN [pc |-> "done", result |-> Returned(0, <<Error("api_unexpected_error", <<>>)>>),
             body |-> resp.body, all_data |-> gathered, failed |-> <<>>]
       ELSE [pc |-> "api_page", result |-> result,
             body |-> resp.body, all_data |-> gathered \o ex.items, failed |-> <<>>]

\* lines 86-98 and 106-108: the first GET; without pagination its items go
\* to _process_api_data
import_from_api ==
    /\ pc = "api"
    /\ \E kind \in ApiErrorKinds(Get(src.server, JStr(src.url)).status) :
         LET a == AfterGet(src.server, JStr(src.url), <<>>, kind)
         IN /\ api' = [requests |-> <<src.url>>, body |-> a.body, all_data |-> a.all_data]
            /\ result' = a.result
            /\ failure' = failure \o a.failed
            /\ IF a.pc = "api_page" /\ ~src.paginated
               THEN /\ pc' = "proc"
                    /\ data' = a.all_data
               ELSE /\ pc' = a.pc
                    /\ data' = data
    /\ UNCHANGED <<argVars, extVars, storeVars, idx, imported_count, errors, product_data,
                   outcome, oplog, written, faults, procResult, file, fileResult,
                   sftp, multi, disk, matched>>

\* the loop if a failed page request ended the fetching and the items of the
\* pages fetched so far went to _process_api_data
api_next_page_keeps_pages ==
    /\ pc = "api_page"
    /\ LET has == has_next_page(api.body, src.next_page_path)
           next_url == get_next_page_url(api.body, src.next_page_path)
       IN CASE has = "raise" ->
                 /\ result' = Returned(0, <<Error("api_unexpected_error", <<>>)>>)
                 /\ pc' = "done"
                 /\ UNCHANGED <<api, data, failure>>
            [] has = "no" ->
                 /\ data' = api.all_data
                 /\ pc' = "proc"
                 /\ UNCHANGED <<api, result, failure>>
            [] OTHER ->
                 /\ Len(api.requests) < MaxRequests
                 /\ \E kind \in ApiErrorKinds(Get(src.server, next_url).status) :
                      LET a == AfterGet(src.server, next_url, api.all_data, kind)
                      IN /\ api' = [requests |-> Append(api.requests, Requested(next_url)),
                                    body |-> a.body, all_data |-> a.all_data]
                         /\ failure' = failure \o a.failed
                         /\ IF a.failed # <<>>
                            THEN /\ pc' = "proc"
                                 /\ data' = api.all_data
                                 /\ result' = result
                            ELSE /\ pc' = a.pc
                                 /\ data' = data
                                 /\ result' = a.result
    /\ UNCHANGED <<argVars, extVars, storeVars, idx, imported_count, errors, product_data,
                   outcome, oplog, written, faults, procResult, file, fileResult,
                   sftp, multi, disk, matched>>

\* lines 98-105: one test of the while loop, with the GET of the next page
\* when there is one, and the call of _process_api_data when there is none
api_next_page ==
    /\ pc = "api_page"
    /\ LET has == has_next_page(api.body, src.next_page_path)
           next_url == get_next_page_url(api.body, src.next_page_path)
       IN CASE has = "raise" ->
                 /\ result' = Returned(0, <<Error("api_unexpected_error", <<>>)>>)
                 /\ pc' = "done"
                 /\ UNCHANGED <<api, data, failure>>
            [] has = "no" ->
                 /\ data' = api.all_data
                 /\ pc' = "proc"
                 /\ UNCHANGED <<api, result, failure>>
            [] OTHER ->
                 /\ Len(api.requests) < MaxRequests
                 /\ \E kind \in ApiErrorKinds(Get(src.server, next_url).status) :
                      LET a == AfterGet(src.server, next_url, api.all_data, kind)
                      IN /\ api' = [requests |-> Append(api.requests, Requested(next_url)),
                                    body |-> a.body, all_data |-> a.all_data]
                         /\ result' = a.result
                         /\ failure' = failure \o a.failed
                         /\ pc' = a.pc
                 /\ data' = data
    /\ UNCHANGED <<argVars, extVars, storeVars, idx, imported_count, errors, product_data,
                   outcome, oplog, written, faults, procResult, file, fileResult,
                   sftp, multi, disk, matched>>

\* import_from_api returns what _process_api_data returned, or catches what
\* it raised
import_from_api_return ==
    /\ pc = "proc_done"
    /\ entry = "api"
    /\ result' = ApiCatch(procResult)
    /\ pc' = "done"
    /\ UNCHANGED <<argVars, extVars, storeVars, procVars, procResult, readerVars>>

\* the servers: three URLs, each answering with a page of its own items and
\* a link to the next page, given in one of two styles: under the key next,
\* or under the key next of the object under links
Urls == {"u1", "u2", "u3"}

RecC == [sku |-> "C", name |-> "N"]

PageItems == [u \in Urls |->
                 CASE u = "u1" -> <<RecA>>
                   [] u = "u2" -> <<RecB>>
                   [] OTHER -> <<RecNoName, RecC>>]

FlatPath == <<"next">>
NestedPath == <<"links", "next">>
ItemsPath == <<"items">>

\* the JSON value of a link: a URL, "" or null
LinkValue(link) == IF link = "null" THEN JNull ELSE JStr(link)

\* a page body: its items, and its link in the style of the path
Page(items, link, path) ==
    LET paths == {<<>>, <<"items">>} \cup
                 (IF path = FlatPath
                  THEN (IF link = "absent" THEN {} ELSE {<<"next">>})
                  ELSE (CASE link = "parent_absent" -> {}
                          [] link \in {"parent_null", "absent"} -> {<<"links">>}
                          [] OTHER -> {<<"links">>, <<"links", "next">>}))
    IN [p \in paths |->
          CASE p = <<>> -> JObj
            [] p = <<"items">> -> JList(items)
            [] p = <<"links">> -> IF link = "parent_null" THEN JNull ELSE JObj
            [] OTHER -> LinkValue(link)]

Ok(body) == [status |-> "ok", body |-> body]
Failing(status) == [status |-> status, body |-> Doc(JNull)]

FlatLinks == [u \in Urls |->
                 CASE u = "u1" -> {"u2", "null", "absent", ""}
                   [] u = "u2" -> {"u3", "u1", "null", "absent", "u9"}
                   [] OTHER -> {"null", "absent", "u1"}]

NestedLinks == [u \in Urls |->
                   CASE u = "u1" -> {"u2", "null", "absent", "parent_null", "parent_absent"}
                     [] u = "u2" -> {"u3", "u1", "null", "absent", "parent_null", "parent_absent"}
                     [] OTHER -> {"null", "absent", "parent_null"}]

ServersOf(links, path) ==
    {[u \in Urls |-> Ok(Page(PageItems[u], l[u], path))] :
        l \in {f \in [Urls -> UNION {links[u] : u \in Urls}] : \A u \in Urls : f[u] \in links[u]}}

\* servers on which a request fails: the first, or the second of the chain
FailingServers(path) ==
    {[u \in Urls |->
        IF u = bad THEN Failing(status) ELSE Ok(Page(PageItems[u], IF u = "u1" THEN "u2" ELSE "null", path))] :
        bad \in {"u1", "u2"}, status \in {"http_error", "not_json", "transport"}}

ApiSource(url, paginated, items_path, next_page_path, server) ==
    [kind |-> "api", url |-> url, paginated |-> paginated, items_path |-> items_path,
     next_page_path |-> next_page_path, server |-> server]

ApiSources ==
    {ApiSource("u1", paginated, ItemsPath, path, server) :
        paginated \in BOOLEAN,
        path \in {FlatPath},
        server \in ServersOf(FlatLinks, FlatPath) \cup FailingServers(FlatPath)}
    \cup
    {ApiSource("u1", paginated, ItemsPath, path, server) :
        paginated \in BOOLEAN,
        path \in {NestedPath},
        server \in ServersOf(NestedLinks, NestedPath) \cup FailingServers(NestedPath)}
    \cup
    {ApiSource("u1", TRUE, items_path, <<>>, server) :
        items_path \in {<<>>, <<"data", "items">>, <<"next", "items">>},
        server \in {[u \in Urls |-> Ok(Page(PageItems[u], "null", FlatPath))],
                    [u \in Urls |-> Ok(Doc(JList(PageItems[u])))]}}

InitApi ==
    /\ pc = "api"
    /\ entry = "api"
    /\ vendors = Vendors
    /\ store \in InitialStores
    /\ nextId = FirstFreeId
    /\ vendor_id = "v1"
    /\ mapping = NoMapping
    /\ data = <<>>
    /\ file = NoFile
    /\ InitLocals
    /\ InitIdle
    /\ src \in ApiSources

NextApi ==
    \/ import_from_api
    \/ api_next_page
    \/ process_mapped_data_begin
    \/ process_item
    \/ process_mapped_data_return
    \/ import_from_api_return

SpecApi == InitApi /\ [][NextApi]_vars

----------------------------------------------------------------------------
(* Vocabulary of the pagination property *)

JAbsent == [t |-> "absent", s |-> "", l |-> <<>>]

\* the value a JSON document carries at a dot path, JAbsent when it carries
\* none
ValueAt(doc, path) == IF path \in DOMAIN doc THEN doc[path] ELSE JAbsent

Answers(url) == url \in DOMAIN src.server /\ src.server[url].status = "ok"

\* the value page url carries at next_page_path
NextOf(url) == ValueAt(src.server[url].body, src.next_page_path)

CarriesNext(url) == Len(src.next_page_path) > 0 /\ NextOf(url).t \notin {"absent", "null"}

\* the pages of the chain that starts at url, at most n of them
RECURSIVE ChainFrom(_, _)
ChainFrom(url, n) ==
    IF n = 0 \/ ~Answers(url) THEN <<>>
    ELSE <<url>> \o (IF CarriesNext(url) /\ NextOf(url).t = "str"
                     THEN ChainFrom(NextOf(url).s, n - 1) ELSE <<>>)

TheChain == ChainFrom(src.url, MaxRequests)

\* the server returns a chain of k pages: pages 1..k-1 carry a non-null
\* value at next_page_path, page k does not, and each page holds a list of
\* items at items_path
IsChainOfPages ==
    /\ TheChain # <<>>
    /\ ~CarriesNext(TheChain[Len(TheChain)])
    /\ \A i \in 1..Len(TheChain) :
         ValueAt(src.server[TheChain[i]].body, src.items_path).t = "list"

RECURSIVE ItemsOfPages(_, _)
ItemsOfPages(chain, i) ==
    IF i > Len(chain) THEN <<>>
    ELSE ValueAt(src.server[chain[i]].body, src.items_path).l \o ItemsOfPages(chain, i + 1)

\* _process_mapped_data has been called with the items of the call
HandedToUpsert == pc \in {"proc", "loop", "proc_done"} \/ procResult # NoResult

\* on every page of the chain, what holds the last key of next_page_path is
\* an object or is missing (it is not null)
ParentsAreObjects ==
    \A i \in 1..Len(TheChain) :
       LET n == Len(src.next_page_path)
           parent == ValueAt(src.server[TheChain[i]].body, SubSeq(src.next_page_path, 1, n - 1))
       IN parent.t \in {"obj", "absent"}

\* the requests sent and the items handed over, for a chain of pages
PagesFetchedAndConcatenated ==
    /\ \A i \in 2..Len(api.requests) :
         api.requests[i] = NextOf(api.requests[i - 1]).s
    /\ pc \notin {"api", "api_page"} =>
         /\ api.requests = TheChain
         /\ HandedToUpsert
         /\ data = ItemsOfPages(TheChain, 1)

(* C8: when paginated is configured and the server returns a chain of k     *)
(* pages in which pages 1..k-1 carry a non-null value at next_page_path and *)
(* page k does not, exactly k GET requests are issued, each next request    *)
(* going to the URL found in the previous page, the loop then stops, and    *)
(* the items handed to the upsert step are the concatenation of the k       *)
(* pages' items in page order.                                              *)
C8_Pagination ==
    (entry = "api" /\ src.paginated /\ IsChainOfPages) => PagesFetchedAndConcatenated

\* the same, for chains on whose pages the parent of the last key of
\* next_page_path is never null: this holds
C8_PaginationObjectParents ==
    (entry = "api" /\ src.paginated /\ IsChainOfPages /\ ParentsAreObjects)
    => PagesFetchedAndConcatenated

\* two pages were fetched and their items handed over together
C8_TwoPages ==
    /\ entry = "api"
    /\ src.paginated
    /\ IsChainOfPages
    /\ Len(TheChain) = 2
    /\ pc = "proc"
    /\ data = <<RecA, RecB>>
    /\ api.requests = <<"u1", "u2">>

----------------------------------------------------------------------------
(* import_from_edi (lines 178-234).  The text is the sequence of its        *)
(* segments (split on '~'), a segment the sequence of its elements (split   *)
(* on '*'); a blank segment is the one empty element.  A call whose         *)
(* edi_data is None has is_text false.                                      *)

\* if not segment.strip()
Blank(segment) == segment \in {<<"">>, <<" ">>, <<"\n">>}

\* float(s): a number, or ValueError
FloatOf(s) ==
    CASE s = "9" -> "9.0"
      [] s = "1.5" -> "1.5"
      [] s = "0" -> ZERO
      [] OTHER -> "#ValueError"

\* one key set in current_product
Put(product, k, v) == [x \in DOMAIN product \cup {k} |-> IF x = k THEN v ELSE product[x]]

\* the for loop over the segments and the flush after it: products_data
RECURSIVE ParseSegments(_, _, _, _)
ParseSegments(segments, i, products_data, current_product) ==
    IF i > Len(segments)
    THEN IF DOMAIN current_product # {} THEN Append(products_data, current_product)
         ELSE products_data
    ELSE LET elements == segments[i]
             segment_id == elements[1]
         IN CASE Blank(elements) ->
                   ParseSegments(segments, i + 1, products_data, current_product)
              [] ~Blank(elements) /\ segment_id = "LIN" ->
                   ParseSegments(segments, i + 1,
                       IF DOMAIN current_product # {}
                       THEN Append(products_data, current_product) ELSE products_data,
                       IF Len(elements) > 3 THEN Put(<<>>, "sku", elements[4]) ELSE <<>>)
              [] ~Blank(elements) /\ segment_id = "PID" ->
                   ParseSegments(segments, i + 1, products_data,
                       IF Len(elements) > 5 THEN Put(current_product, "name", elements[6])
                       ELSE current_product)
              [] ~Blank(elements) /\ segment_id = "CTP" ->
                   ParseSegments(segments, i + 1, products_data,
                       IF Len(elements) > 3 /\ FloatOf(elements[4]) # "#ValueError"
                       THEN Put(current_product, "price", FloatOf(elements[4]))
                       ELSE current_product)
              [] OTHER ->
                   ParseSegments(segments, i + 1, products_data, current_product)

\* except Exception as e: return 0, [f"Error parsing EDI data: {str(e)}"]
EdiCatch(r) ==
    IF r.status = "raised" THEN Returned(0, <<Error("edi_error", <<>>)>>) ELSE r

\* import_from_edi up to its call of _process_mapped_data
import_from_edi ==
    /\ pc = "edi"
    /\ IF ~src.is_text
       THEN /\ result' = EdiCatch(Raised)
            /\ failure' = Append(failure, "edi_no_text")
            /\ pc' = "done"
            /\ data' = data
       ELSE /\ data' = ParseSegments(src.segments, 1, <<>>, <<>>)
            /\ pc' = "proc"
            /\ UNCHANGED <<result, failure>>
    /\ UNCHANGED <<argVars, extVars, storeVars, idx, imported_count, errors, product_data,
                   outcome, oplog, written, faults, procResult, file, fileResult,
                   api, sftp, multi, disk, matched>>

\* import_from_edi returns what _process_mapped_data returned, or catches
\* what it raised
import_from_edi_return ==
    /\ pc = "proc_done"
    /\ entry = "edi"
    /\ result' = EdiCatch(procResult)
    /\ pc' = "done"
    /\ UNCHANGED <<argVars, extVars, storeVars, procVars, procResult, readerVars>>

----------------------------------------------------------------------------
(* import_from_sftp (lines 118-175) and import_from_sftp_multi (lines       *)
(* 484-507).  A configuration holds what the server has in the directory:   *)
(* the names nlst() lists and, by name, the content a download yields.      *)
(* Every FTP call may raise one of ftplib.all_errors; so may the QUIT sent  *)
(* when the `with` block is left.                                           *)

\* the configuration import_from_sftp runs on
Config == IF entry = "multi" THEN src.configs[multi.i + 1] ELSE src

\* temp_file = f"temp_{file}"
TempName(name) == <<"t", "e", "m", "p", "_">> \o name

\* [f for f in ftp.nlst() if cls._matches_pattern(f, file_pattern)]
MatchingFiles(listing, pattern) ==
    SelectSeq(listing, LAMBDA f : matches_pattern(f, pattern))

\* except ftplib.all_errors as e: return 0, [f"SFTP error: {str(e)}"]
SftpError == Returned(0, <<Error("sftp_error", <<>>)>>)

\* a return that keeps the count of the files imported before the failure
SftpReturnKeepCount(quit, total_imported, all_errors) ==
    IF quit THEN Returned(total_imported, Append(all_errors, Error("sftp_error", <<>>)))
    ELSE Returned(total_imported, all_errors)

\* `return total_imported, all_errors` inside the with block: the QUIT of
\* its exit may raise, and the except clause then returns instead
SftpReturn(quit, total_imported, all_errors) ==
    IF quit THEN SftpError ELSE Returned(total_imported, all_errors)

\* where import_from_sftp returns to
AfterSftp == IF entry = "multi" THEN "sftp_done" ELSE "done"

\* lines 137-153: connect, login, cwd, nlst and the filter
import_from_sftp ==
    /\ pc = "sftp"
    /\ \E fault \in MayFail :
         LET files == MatchingFiles(Config.listing, Config.pattern)
             r == IF fault THEN SftpError
                  ELSE Returned(0, <<Error("no_matching_files", <<>>)>>)
         IN /\ faults' = IF fault THEN faults + 1 ELSE faults
            /\ failure' = IF fault THEN Append(failure, "sftp_connect") ELSE failure
            /\ IF fault \/ files = <<>>
               THEN /\ sftp' = [NoSftp EXCEPT !.result = r]
                    /\ result' = IF entry = "sftp" THEN r ELSE result
                    /\ pc' = AfterSftp
               ELSE /\ sftp' = [NoSftp EXCEPT !.files = files]
                    /\ result' = result
                    /\ pc' = "sftp_loop"
    /\ UNCHANGED <<argVars, extVars, storeVars, data, idx, imported_count, errors,
                   product_data, outcome, oplog, written, procResult, file,
                   fileResult, api, multi, disk, matched>>

\* lines 156-162: the temporary file is opened for writing and the download
\* is written to it; import_from_file is then called on it
sftp_download ==
    /\ pc = "sftp_loop"
    /\ sftp.i < Len(sftp.files)
    /\ LET name == sftp.files[sftp.i + 1]
       IN /\ disk' = disk \cup {TempName(name)}
          /\ \E fault \in MayFail :
               /\ faults' = IF fault THEN faults + 1 ELSE faults
               /\ IF fault
                  THEN /\ sftp' = [sftp EXCEPT !.result = SftpError]
                       /\ result' = IF entry = "sftp" THEN SftpError ELSE result
                       /\ failure' = Append(failure, "sftp_download")
                       /\ pc' = AfterSftp
                       /\ file' = file
                  ELSE /\ file' = [Config.remote[name] EXCEPT !.name = TempName(name)]
                       /\ pc' = "file"
                       /\ UNCHANGED <<sftp, result, failure>>
    /\ UNCHANGED <<argVars, extVars, storeVars, data, idx, imported_count, errors,
                   product_data, outcome, oplog, written, procResult, fileResult,
                   api, multi, matched>>

\* lines 163-168: the totals take what import_from_file returned, and the
\* temporary file is removed
sftp_after_file ==
    /\ pc = "file_done"
    /\ sftp' = [sftp EXCEPT !.i = @ + 1,
                            !.total_imported = @ + fileResult.count,
                            !.all_errors = @ \o fileResult.errors]
    /\ disk' = disk \ {file.name}
    /\ pc' = "sftp_loop"
    /\ UNCHANGED <<argVars, extVars, storeVars, procVars, procResult, result, file,
                   fileResult, api, multi, matched, failure>>

\* line 170, and the exit of the with block
sftp_return ==
    /\ pc = "sftp_loop"
    /\ sftp.i = Len(sftp.files)
    /\ \E quit \in MayFail :
         LET r == SftpReturn(quit, sftp.total_imported, sftp.all_errors)
         IN /\ faults' = IF quit THEN faults + 1 ELSE faults
            /\ failure' = IF quit THEN Append(failure, "sftp_quit") ELSE failure
            /\ sftp' = [sftp EXCEPT !.result = r]
            /\ result' = IF entry = "sftp" THEN r ELSE result
            /\ pc' = AfterSftp
    /\ UNCHANGED <<argVars, extVars, storeVars, data, idx, imported_count, errors,
                   product_data, outcome, oplog, written, procResult, file,
                   fileResult, api, multi, disk, matched>>

\* import_from_sftp_multi: the next configuration goes to import_from_sftp
sftp_multi_next ==
    /\ pc = "multi"
    /\ multi.i < Len(src.configs)
    /\ pc' = "sftp"
    /\ multi' = [multi EXCEPT !.visited = Append(@, multi.i + 1)]
    /\ UNCHANGED <<argVars, extVars, storeVars, procVars, procResult, result, file,
                   fileResult, api, sftp, disk, matched, failure>>

\* except Exception as e: all_errors.append(f"Error processing directory...")
MultiCatch(r) ==
    IF r.status = "raised" THEN Returned(0, <<Error("directory_error", <<>>)>>) ELSE r

\* the loop if a directory that reports errors ended it
sftp_multi_after_stops ==
    /\ pc = "sftp_done"
    /\ multi' = [multi EXCEPT !.i = IF MultiCatch(sftp.result).errors = <<>>
                                    THEN @ + 1 ELSE Len(src.configs),
                              !.total_imported = @ + MultiCatch(sftp.result).count,
                              !.all_errors = @ \o MultiCatch(sftp.result).errors,
                              !.results = Append(@, MultiCatch(sftp.result))]
    /\ pc' = "multi"
    /\ UNCHANGED <<argVars, extVars, storeVars, procVars, procResult, result, file,
                   fileResult, api, sftp, disk, matched, failure>>

\* lines 501-505: the totals take what import_from_sftp returned
sftp_multi_after ==
    /\ pc = "sftp_done"
    /\ multi' = [multi EXCEPT !.i = @ + 1,
                              !.total_imported = @ + MultiCatch(sftp.result).count,
                              !.all_errors = @ \o MultiCatch(sftp.result).errors,
                              !.results = Append(@, MultiCatch(sftp.result))]
    /\ pc' = "multi"
    /\ UNCHANGED <<argVars, extVars, storeVars, procVars, procResult, result, file,
                   fileResult, api, sftp, disk, matched, failure>>

\* line 507: return total_imported, all_errors
sftp_multi_return ==
    /\ pc = "multi"
    /\ multi.i = Len(src.configs)
    /\ result' = Returned(multi.total_imported, multi.all_errors)
    /\ pc' = "done"
    /\ UNCHANGED <<argVars, extVars, storeVars, procVars, procResult, readerVars>>

----------------------------------------------------------------------------
(* The five public entry points together *)

\* files, directories and configurations are counted up to these
MaxFiles == 2
MaxDirs == 2

GoodCsv == <<"a", ".", "c", "s", "v">>
OtherJson == <<"b", ".", "j", "s", "o", "n">>

JsonFile(name, items) ==
    [name |-> name, exists |-> TRUE, readable |-> TRUE,
     header |-> <<>>, rows |-> <<>>, items |-> items]

\* what the server holds under the two names: a CSV file of two rows, and a
\* JSON file that parses to one record, or does not parse
Remotes ==
    {[n \in {GoodCsv, OtherJson} |->
        IF n = GoodCsv
        THEN CsvFile(GoodCsv, HeaderSkuNamePrice, <<<<"A", "N", "9">>, <<"C", "", "9">>>>)
        ELSE j] :
        j \in {JsonFile(OtherJson, <<RecB>>), BrokenFile(OtherJson)}}

Listings ==
    {l \in UNION {[1..n -> {GoodCsv, OtherJson}] : n \in 0..MaxFiles} :
        \A i, j \in DOMAIN l : l[i] = l[j] => i = j}

SftpSource(listing, pattern, remote) ==
    [kind |-> "sftp", listing |-> listing, pattern |-> pattern, remote |-> remote]

SftpSources ==
    {SftpSource(l, p, r) :
        l \in Listings, p \in {Star, StarCsv, <<"z", "*">>}, r \in Remotes}

DirSources ==
    {SftpSource(l, Star, r) : l \in {<<GoodCsv>>, <<OtherJson>>, <<>>}, r \in Remotes}

MultiSources ==
    {[kind |-> "multi", configs |-> c] :
        c \in UNION {[1..n -> DirSources] : n \in 0..MaxDirs}}

ReaderFiles ==
    {CsvFile(NameCsv, HeaderSkuNamePrice, <<<<"A", "N", "9">>, <<"B", "M", "">>>>),
     JsonFile(NameJson, <<RecA, NonDictItem>>),
     MissingFile(NameCsv), BrokenFile(NameJson), MissingFile(NameTxt)}

Lin(sku) == <<"LIN", "", "SK", sku>>
Pid(name) == <<"PID", "F", "", "", "", name>>
Ctp(price) == <<"CTP", "", "UCP", price>>

EdiTexts ==
    { <<Lin("A"), Pid("N"), Ctp("9"), Lin("B"), Pid("M"), Ctp("x"), <<"">>>>,
      <<<<"ISA", "00">>, Lin("A"), Ctp("0"), <<"LIN", "">>, Pid("N"), <<"">>>>,
      <<<<"hello">>>>,
      <<<<"">>>> }

EdiSource(segments) == [kind |-> "edi", is_text |-> TRUE, segments |-> segments]

NoEdiText == [kind |-> "edi", is_text |-> FALSE, segments |-> <<>>]

ReaderApiSources ==
    {ApiSource("u1", TRUE, ItemsPath, NestedPath, server) :
        server \in {[u \in Urls |-> Ok(Page(PageItems[u], l[u], NestedPath))] :
                      l \in {[u1 |-> "u2", u2 |-> "null", u3 |-> "null"],
                             [u1 |-> "u2", u2 |-> "parent_null", u3 |-> "null"]}}
                   \cup FailingServers(NestedPath)}

PublicEntries == {"file", "api", "sftp", "multi", "edi"}

InitReaders ==
    /\ entry \in PublicEntries
    /\ pc = entry
    /\ vendors = Vendors
    /\ store \in {{}, {Row(1, "v1", "A", "Old"), Row(2, "v2", "A", "Other")}}
    /\ nextId = FirstFreeId
    /\ vendor_id \in {"v1", "v9"}
    /\ mapping = NoMapping
    /\ data = <<>>
    /\ InitLocals
    /\ InitIdle
    /\ file \in IF entry = "file" THEN ReaderFiles ELSE {NoFile}
    /\ src \in CASE entry = "file" -> {NoSource}
                 [] entry = "api" -> ReaderApiSources
                 [] entry = "sftp" -> SftpSources
                 [] entry = "multi" -> MultiSources
                 [] OTHER -> {EdiSource(t) : t \in EdiTexts} \cup {NoEdiText}

NextReaders ==
    \/ import_from_file
    \/ import_from_file_return
    \/ import_from_api
    \/ api_next_page
    \/ import_from_api_return
    \/ import_from_sftp
    \/ sftp_download
    \/ sftp_after_file
    \/ sftp_return
    \/ sftp_multi_next
    \/ sftp_multi_after
    \/ sftp_multi_return
    \/ import_from_edi
    \/ import_from_edi_return
    \/ process_mapped_data_begin
    \/ process_item
    \/ process_mapped_data_return

SpecReaders == InitReaders /\ [][NextReaders]_vars

\* failures of the connection itself: they end import_from_sftp
SftpTransportFailures == {"sftp_connect", "sftp_download", "sftp_quit"}

\* the call met a source-access failure: a file missing or not parsing, a
\* request failing or answered with no JSON, an FTP call raising
SourceFailed == failure # <<>>

----------------------------------------------------------------------------
(* Temporary files of import_from_sftp *)

(* C11: when import_from_sftp returns, on every path (all files imported, a *)
(* file's import reported errors, or a download or transport failure in the *)
(* middle of the file loop), no temporary local file created by that call   *)
(* still exists.                                                            *)
C11_TempFilesRemoved ==
    (pc = "done" /\ entry = "sftp") => disk = {}

\* the same for the calls in which no download raised: this holds
C11_TempFilesRemovedNoDownloadFailure ==
    (pc = "done" /\ entry = "sftp" /\ \A i \in DOMAIN failure : failure[i] # "sftp_download")
    => disk = {}

----------------------------------------------------------------------------
(* The model layer: models/vendor_product.py and models/vendor.py on       *)
(* SQLite, v1/models/vendor_product_postgres.py and                         *)
(* v1/models/vendor_postgres.py on PostgreSQL.  A model operation opens a   *)
(* connection, executes its statements and commits; `store` and `vendors`   *)
(* are the committed tables.                                                *)

Backends == {"sqlite", "postgres"}

\* everything no model operation touches
importVars == <<entry, vendor_id, mapping, src, procVars, procResult, result,
                readerVars, cfgVars, uiVars, lateVars>>

\* the table without its UNIQUE(vendor_id, vendor_sku): nothing collides
ConflictsNone(st, v, sku) == {}

\* UNIQUE(vendor_id, vendor_sku) on a nullable vendor_sku: the rows of st a
\* new row (v, sku) collides with.  NULL is distinct from every value, NULL
\* included, so a row without a sku collides with nothing.
Conflicts(st, v, sku) ==
    IF sku = NONE THEN {}
    ELSE {r \in st : r.vendor_id = v /\ r.sku = sku}

\* FOREIGN KEY (vendor_id) REFERENCES vendors (id).  PostgreSQL checks it;
\* sqlite3.connect() leaves foreign-key enforcement off and no connection
\* turns it on.
ForeignKeysEnforced(b) == b = "postgres"

\* the row (.., v, ..) names no vendor and the database minds
ReferenceBroken(b, vs, v) == ForeignKeysEnforced(b) /\ v \notin vs

\* a vendor_products row: identity, owner, natural key, the other columns
SqlRow(id, v, sku, price) ==
    [id |-> id, vendor_id |-> v, sku |-> sku, data |-> [vendor_price |-> price]]

\* what a model operation did
Done(op, value) == [op |-> op, status |-> "ok", value |-> value]
Failed(op, error) == [op |-> op, status |-> error, value |-> 0]

\* INSERT INTO vendor_products ...: the table afterwards
Insert(st, id, v, sku, price) == st \cup {SqlRow(id, v, sku, price)}

\* INSERT OR REPLACE INTO vendor_products ...: the colliding rows are deleted
\* and the new row is inserted under a new identity
InsertOrReplace(st, id, v, sku, price) ==
    (st \ Conflicts(st, v, sku)) \cup {SqlRow(id, v, sku, price)}

\* UPDATE vendor_products SET vendor_id = ?, vendor_sku = ?, ... WHERE id = ?
Update(st, id, v, sku, price) ==
    {IF r.id = id THEN SqlRow(id, v, sku, price) ELSE r : r \in st}

\* a value sqlite3 and psycopg2 cannot bind to a parameter (a list, a dict)
Unbindable == "#unbindable"

\* bounds of the model operations
MaxOps == 2
MaxProducts == 3
MaxBatchSize == 2

Skus == {"A", "B", NONE}
OwnerIds == {"v1", "v9"}
RowIds == 1..(FirstFreeId + MaxOps + MaxProducts)
NewVendors == <<"v3">>

ProductA == [sku |-> "A", price |-> "5"]
ProductB == [sku |-> "B", price |-> "6"]
ProductBad == [sku |-> "B", price |-> Unbindable]
Products == {ProductA, ProductB, ProductBad}

RECURSIVE SeqsUpTo(_, _)
SeqsUpTo(S, n) ==
    IF n = 0 THEN {<<>>}
    ELSE LET shorter == SeqsUpTo(S, n - 1)
         IN shorter \cup {Append(q, x) : q \in {t \in shorter : Len(t) = n - 1}, x \in S}

ProductLists == SeqsUpTo(Products, MaxProducts)
BatchSizes == 1..MaxBatchSize

\* a model operation may be called
Idle == pc = "idle" /\ nops < MaxOps

\* VendorProduct.save / VendorProductPostgres.save: one INSERT, then commit.
\* A constraint violation raises IntegrityError before the commit.
vp_save ==
    /\ Idle
    /\ \E v \in OwnerIds, sku \in Skus :
         IF Conflicts(store, v, sku) # {} \/ ReferenceBroken(backend, vendors, v)
         THEN /\ sql' = Failed("save", "IntegrityError")
              /\ UNCHANGED storeVars
         ELSE /\ store' = Insert(store, nextId, v, sku, "5")
              /\ nextId' = nextId + 1
              /\ sql' = Done("save", nextId)
    /\ nops' = nops + 1
    /\ UNCHANGED <<pc, vendors, importVars, backend, bulk, vendor_seq>>

\* VendorProduct.update / VendorProductPostgres.update: one UPDATE by id,
\* then commit
vp_update ==
    /\ Idle
    /\ \E id \in {r.id : r \in store}, v \in OwnerIds, sku \in Skus :
         IF Conflicts({r \in store : r.id # id}, v, sku) # {}
            \/ ReferenceBroken(backend, vendors, v)
         THEN /\ sql' = Failed("update", "IntegrityError")
              /\ UNCHANGED store
         ELSE /\ store' = Update(store, id, v, sku, "7")
              /\ sql' = Done("update", id)
    /\ nops' = nops + 1
    /\ UNCHANGED <<pc, vendors, nextId, importVars, backend, bulk, vendor_seq>>

\* VendorProduct.delete / VendorProductPostgres.delete: DELETE by id, commit
vp_delete ==
    /\ Idle
    /\ \E id \in {r.id : r \in store} :
         /\ store' = {r \in store : r.id # id}
         /\ sql' = Done("delete", id)
    /\ nops' = nops + 1
    /\ UNCHANGED <<pc, vendors, nextId, importVars, backend, bulk, vendor_seq>>

\* Vendor.save: INSERT INTO vendors, commit
vendor_save ==
    /\ Idle
    /\ vendor_seq < Len(NewVendors)
    /\ vendors' = vendors \cup {NewVendors[vendor_seq + 1]}
    /\ vendor_seq' = vendor_seq + 1
    /\ sql' = Done("vendor_save", vendor_seq + 1)
    /\ nops' = nops + 1
    /\ UNCHANGED <<pc, storeVars, importVars, backend, bulk>>

\* Vendor.delete / VendorController.delete_vendor: DELETE FROM vendors WHERE
\* id = ?, commit.  The statement names no other table.
vendor_delete ==
    /\ Idle
    /\ \E v \in vendors :
         IF ForeignKeysEnforced(backend) /\ RowsOf(store, v) # {}
         THEN /\ sql' = Failed("vendor_delete", "IntegrityError")
              /\ UNCHANGED vendors
         ELSE /\ vendors' = vendors \ {v}
              /\ sql' = Done("vendor_delete", 0)
    /\ nops' = nops + 1
    /\ UNCHANGED <<pc, storeVars, importVars, backend, bulk, vendor_seq>>

\* the statement of bulk_insert: target columns and expressions of one row
TargetColumns(b) == IF b = "postgres" THEN 16 ELSE 17
RowExpressions(b) == 17

\* the database accepts the statement
StatementAccepted(b) == TargetColumns(b) = RowExpressions(b)

\* batch = products_data[i:i+batch_size] (i counts from 0)
Batch(products_data, i, batch_size) ==
    SubSeq(products_data, i + 1, Min({i + batch_size, Len(products_data)}))

\* every value of the batch can be bound to its parameter
Bindable(batch) == \A k \in 1..Len(batch) : batch[k].price # Unbindable

\* the rows of the open transaction after the batch was written, in order
RECURSIVE WriteBatch(_, _, _, _, _)
WriteBatch(st, id, v, batch, k) ==
    IF k > Len(batch) THEN st
    ELSE WriteBatch(InsertOrReplace(st, id, v, batch[k].sku, batch[k].price),
                    id + 1, v, batch, k + 1)

\* bulk_insert(vendor_id, products_data, batch_size): an empty list returns
\* 0 at once; otherwise a connection is opened and the chunk loop starts
bulk_insert ==
    /\ Idle
    /\ \E v \in OwnerIds, products_data \in ProductLists, batch_size \in BatchSizes :
         LET call == [NoBulk EXCEPT !.vendor_id = v,
                                    !.products_data = products_data,
                                    !.batch_size = batch_size,
                                    !.rows = store,
                                    !.lastrowid = nextId]
         IN /\ bulk' = call
            /\ IF products_data = <<>>
               THEN /\ sql' = Done("bulk_insert", 0)
                    /\ pc' = pc
               ELSE /\ sql' = [op |-> "bulk_insert", status |-> "running", value |-> 0]
                    /\ pc' = "bulk"
    /\ nops' = nops + 1
    /\ UNCHANGED <<vendors, storeVars, importVars, backend, vendor_seq>>

\* the chunk loop if every chunk were committed as soon as it is written
bulk_insert_chunk_commits ==
    /\ pc = "bulk"
    /\ bulk.i < Len(bulk.products_data)
    /\ LET batch == Batch(bulk.products_data, bulk.i, bulk.batch_size)
       IN IF ~StatementAccepted(backend) \/ ~Bindable(batch)
             \/ ReferenceBroken(backend, vendors, bulk.vendor_id)
          THEN /\ sql' = Failed("bulk_insert", "ProgrammingError")
               /\ pc' = "idle"
               /\ bulk' = bulk
               /\ UNCHANGED storeVars
          ELSE /\ bulk' = [bulk EXCEPT
                     !.rows = WriteBatch(bulk.rows, bulk.lastrowid, bulk.vendor_id,
                                         batch, 1),
                     !.lastrowid = bulk.lastrowid + Len(batch),
                     !.statements = Append(bulk.statements, batch),
                     !.total_inserted = bulk.total_inserted + Len(batch),
                     !.i = bulk.i + bulk.batch_size]
               /\ store' = bulk'.rows
               /\ nextId' = bulk'.lastrowid
               /\ UNCHANGED <<sql, pc>>
    /\ UNCHANGED <<vendors, importVars, backend, vendor_seq, nops>>

\* one turn of  for i in range(0, len(products_data), batch_size):  the
\* batch is written by one executemany / execute inside the connection's
\* open transaction.  A statement that raises ends the call: nothing was
\* committed, and the connection is dropped with its transaction.
bulk_insert_chunk ==
    /\ pc = "bulk"
    /\ bulk.i < Len(bulk.products_data)
    /\ LET batch == Batch(bulk.products_data, bulk.i, bulk.batch_size)
       IN IF ~StatementAccepted(backend) \/ ~Bindable(batch)
             \/ ReferenceBroken(backend, vendors, bulk.vendor_id)
          THEN /\ sql' = Failed("bulk_insert",
                                IF ~StatementAccepted(backend) \/ ~Bindable(batch)
                                THEN "ProgrammingError" ELSE "IntegrityError")
               /\ pc' = "idle"
               /\ bulk' = bulk
          ELSE /\ bulk' = [bulk EXCEPT
                     !.rows = WriteBatch(bulk.rows, bulk.lastrowid, bulk.vendor_id,
                                         batch, 1),
                     !.lastrowid = bulk.lastrowid + Len(batch),
                     !.statements = Append(bulk.statements, batch),
                     !.total_inserted = bulk.total_inserted + Len(batch),
                     !.i = bulk.i + bulk.batch_size]
               /\ UNCHANGED <<sql, pc>>
    /\ UNCHANGED <<vendors, storeVars, importVars, backend, vendor_seq, nops>>

\* conn.commit(); conn.close(); return total_inserted
bulk_insert_return ==
    /\ pc = "bulk"
    /\ bulk.i >= Len(bulk.products_data)
    /\ store' = bulk.rows
    /\ nextId' = bulk.lastrowid
    /\ sql' = Done("bulk_insert", bulk.total_inserted)
    /\ pc' = "idle"
    /\ UNCHANGED <<vendors, importVars, backend, bulk, vendor_seq, nops>>

----------------------------------------------------------------------------
\* The stores the operations start from, and the per-record import running
\* on the same tables.

StoreRows == { {}, {SqlRow(1, "v1", "A", "5")} }

InitStore ==
    /\ entry \in {"models", "process"}
    /\ pc = IF entry = "process" THEN "proc" ELSE "idle"
    /\ backend \in (IF entry = "process" THEN {"sqlite"} ELSE Backends)
    /\ vendors = {"v1"}
    /\ store \in (IF entry = "process" THEN {{Row(1, "v1", "A", "Old")}} ELSE StoreRows)
    /\ nextId = FirstFreeId
    /\ vendor_id = "v1"
    /\ mapping = NoMapping
    /\ data \in (IF entry = "process" THEN Batches ELSE {<<>>})
    /\ src = NoSource
    /\ file = NoFile
    /\ bulk = NoBulk
    /\ sql = NoSql
    /\ vendor_seq = 0
    /\ nops = 0
    /\ InitSettingsIdle
    /\ InitUiIdle
    /\ InitLateIdle
    /\ InitLocals

NextStore ==
    \/ vp_save
    \/ vp_update
    \/ vp_delete
    \/ vendor_save
    \/ vendor_delete
    \/ bulk_insert
    \/ bulk_insert_chunk
    \/ bulk_insert_return
    \/ process_mapped_data_begin
    \/ process_item
    \/ process_mapped_data_return

SpecStore == InitStore /\ [][NextStore]_vars

----------------------------------------------------------------------------
(* Properties of the model layer *)

\* rows r1 and r2 carry the same natural key
SameKey(r1, r2) == r1.vendor_id = r2.vendor_id /\ r1.sku = r2.sku

\* C12: natural-key uniqueness: in every store state no two vendor_products
\* rows share the same (vendor_id, vendor_sku) pair.  It fails: the column
\* vendor_sku is nullable and UNIQUE lets any number of rows with a NULL sku
\* in, so two saves of a product without sku leave two rows (v, NULL).
C12_NaturalKeyUnique ==
    \A r1, r2 \in store : SameKey(r1, r2) => r1.id = r2.id

\* What does hold for C12: rows that carry a sku are unique on their key.
C12_NaturalKeyUniqueWithSku ==
    \A r1, r2 \in store :
        (SameKey(r1, r2) /\ r1.sku # NONE) => r1.id = r2.id

\* What does hold for C12: a save or update the database refuses leaves the
\* table as it was.
C12_RefusedLeavesStore ==
    [][(sql' # sql /\ sql'.status = "IntegrityError") => store' = store]_vars

\* the records of the statements issued so far, in order
RECURSIVE Flatten(_, _)
Flatten(statements, k) ==
    IF k > Len(statements) THEN <<>>
    ELSE statements[k] \o Flatten(statements, k + 1)

\* a call of bulk_insert has ended
BulkEnded == pc = "idle" /\ sql.op = "bulk_insert"

\* the call split its list into consecutive chunks of batch_size records,
\* the last one possibly shorter, wrote one statement per chunk and
\* returned the length of the list
ChunkedAndCounted ==
    LET n == Len(bulk.products_data)
        issued == bulk.statements
    IN /\ sql = Done("bulk_insert", n)
       /\ Len(issued) = (n + bulk.batch_size - 1) \div bulk.batch_size
       /\ Flatten(issued, 1) = bulk.products_data
       /\ \A k \in 1..Len(issued) :
            /\ k < Len(issued) => Len(issued[k]) = bulk.batch_size
            /\ Len(issued[k]) \in 1..bulk.batch_size

\* C13: bulk chunking: bulk_insert splits products_data, in order, into
\* consecutive chunks of exactly batch_size records with only the last one
\* possibly shorter, issues one multi-row statement per chunk and returns
\* len(products_data); an empty input returns 0 and writes nothing.  It
\* fails on PostgreSQL: the statement names 16 target columns and gives 17
\* expressions per row, so the first chunk raises and nothing is returned.
C13_BulkChunking ==
    (BulkEnded /\ Bindable(bulk.products_data)) => ChunkedAndCounted

\* What does hold for C13: on SQLite the list is chunked and counted as
\* stated, and the committed table changes only when the call returns.
C13_BulkChunkingSqlite ==
    (BulkEnded /\ Bindable(bulk.products_data) /\ backend = "sqlite")
    => ChunkedAndCounted

\* the sku the upsert loop stored record i of the batch under
SkuOf(i) == ApplyMapping(data[i], EffectiveMapping(mapping))["sku"]

\* every record the upsert loop has written so far is a row of the table
UpsertKept ==
    \A i \in 1..Len(outcome) :
        Succeeded(outcome[i]) =>
            \E r \in store : r.vendor_id = vendor_id /\ r.sku = SkuOf(i)

\* a call of bulk_insert ended by raising
BulkFailed == BulkEnded /\ sql.status \notin {"ok", "running"}

\* the records of the chunks bulk_insert wrote are rows of the table
ChunksKept ==
    \A k \in 1..Len(bulk.statements) :
        \A j \in 1..Len(bulk.statements[k]) :
            \E r \in store : /\ r.vendor_id = bulk.vendor_id
                             /\ r.sku = bulk.statements[k][j].sku
                             /\ r.data = [vendor_price |-> bulk.statements[k][j].price]

\* C14 as stated: when a batch fails partway, in the upsert loop or in
\* bulk_insert between two chunks, every record or chunk written before the
\* failure remains committed after the call ends.  It fails for
\* bulk_insert, whose only commit follows the last chunk.
C14_WrittenStaysCommitted ==
    /\ UpsertKept
    /\ BulkFailed => ChunksKept

\* C14, amended: bulk_insert writes all its chunks in one transaction that
\* is committed once, after the last chunk: a call that fails in any chunk
\* leaves the table as it was before the call, no chunk written before the
\* failure stays, and the table changes only when the call returns.
C14_BulkAllOrNothing ==
    [][ /\ (pc = "bulk" /\ sql'.status \notin {"ok", "running"}) => store' = store
        /\ (pc = "bulk" /\ store' # store)
             => (pc' = "idle" /\ sql' = Done("bulk_insert", Len(bulk.products_data))
                 /\ store' = bulk.rows) ]_vars

\* What does hold of the per-record loop for C14: every record it wrote
\* before a failing record is a row of the table, during and after the call.
C14_UpsertKept == [][UpsertKept']_vars

\* bulk_insert wrote a first chunk, failed in a later one, and the table is
\* as before the call
C14_Witness ==
    /\ BulkFailed
    /\ Len(bulk.statements) >= 1
    /\ ~ChunksKept
    /\ store \in StoreRows

\* C17: ownership: in every store state each vendor_products row refers to
\* a vendor that exists in the vendors table; deleting a vendor never leaves
\* rows whose vendor_id names a missing vendor.  It fails on SQLite, where
\* the foreign key is declared but not enforced: Vendor.delete removes the
\* vendor and leaves its rows, and save accepts a vendor_id of no vendor.
C17_RowsOwned ==
    \A r \in store : r.vendor_id \in vendors

\* What does hold for C17: on PostgreSQL, which enforces the foreign key,
\* every row names an existing vendor.
C17_RowsOwnedPostgres ==
    backend = "postgres" => \A r \in store : r.vendor_id \in vendors

----------------------------------------------------------------------------
(* import_from_edi on every short EDI text: the segments between '~', each  *)
(* the list of its elements between '*'.  A text written one segment per    *)
(* line has a newline in front of every segment but the first.              *)

MaxSegments == 3

EdiSegments ==
    { Lin("A"), Lin("B"), <<"\nLIN", "", "SK", "B">>, <<"LIN", "">>,
      Pid("N"), Ctp("9"), Ctp("x"), <<"ISA", "00">>, <<"">> }

EdiInputs == SeqsUpTo(EdiSegments, MaxSegments) \ {<<>>}

InitEdi ==
    /\ entry = "edi"
    /\ pc = "edi"
    /\ vendors = Vendors
    /\ store = {Row(1, "v1", "A", "Old")}
    /\ nextId = FirstFreeId
    /\ vendor_id = "v1"
    /\ mapping = NoMapping
    /\ data = <<>>
    /\ src \in {EdiSource(segments) : segments \in EdiInputs}
    /\ file = NoFile
    /\ InitLocals
    /\ InitIdle

NextEdi ==
    \/ import_from_edi
    \/ process_mapped_data_begin
    \/ process_item
    \/ process_mapped_data_return
    \/ import_from_edi_return

SpecEdi == InitEdi /\ [][NextEdi]_vars

\* the segment identifier as written, without the white space around it
Strip(s) == IF s = "\nLIN" THEN "LIN" ELSE s

\* positions of the segments of that kind
SegmentsOf(segments, id) ==
    {i \in 1..Len(segments) : ~Blank(segments[i]) /\ Strip(segments[i][1]) = id}

\* the LIN segment at position i carries a sku
CarriesSku(segments, i) == Len(segments[i]) > 3 /\ segments[i][4] # ""

\* position of the j-th LIN segment
NthLin(segments, j) ==
    CHOOSE i \in SegmentsOf(segments, "LIN") :
        Cardinality({h \in SegmentsOf(segments, "LIN") : h <= i}) = j

\* the last LIN segment before position i, 0 when there is none
LinBefore(segments, i) ==
    Max({0} \cup {h \in SegmentsOf(segments, "LIN") : h < i})

\* positions of the PID (CTP) segments that follow the LIN at position p
\* before any other LIN and carry a value for the product
NamesFor(segments, p) ==
    {i \in SegmentsOf(segments, "PID") :
        LinBefore(segments, i) = p /\ Len(segments[i]) > 5}

PricesFor(segments, p) ==
    {i \in SegmentsOf(segments, "CTP") :
        /\ LinBefore(segments, i) = p
        /\ Len(segments[i]) > 3
        /\ FloatOf(segments[i][4]) # "#ValueError"}

\* the product record the LIN at position p and its PID and CTP segments
\* describe
ProductOf(segments, p) ==
    LET names == NamesFor(segments, p)
        prices == PricesFor(segments, p)
        withSku == Put(<<>>, "sku", segments[p][4])
        withName == IF names = {} THEN withSku
                    ELSE Put(withSku, "name", segments[Max(names)][6])
    IN IF prices = {} THEN withName
       ELSE Put(withName, "price", FloatOf(segments[Max(prices)][4]))

\* the text was parsed and its records handed to _process_mapped_data
EdiParsed == entry = "edi" /\ pc # "edi" /\ src.is_text

\* the records are those of the LIN segments, in LIN order
OneRecordPerLin(segments, records) ==
    LET lins == SegmentsOf(segments, "LIN")
    IN /\ Len(records) = Cardinality(lins)
       /\ \A j \in 1..Len(records) :
            records[j] = ProductOf(segments, NthLin(segments, j))

\* C15: EDI reader: an input with k LIN segments that each carry a sku
\* yields exactly k product records, in LIN order, each PID and CTP value
\* attached to the most recent preceding LIN, a non-numeric price ignored
\* and the product open at the end flushed.  It fails: a PID or CTP segment
\* ahead of the first LIN makes a record of its own, and a LIN segment that
\* starts on a new line is not recognised.
C15_OneRecordPerLin ==
    (EdiParsed /\ \A i \in SegmentsOf(src.segments, "LIN") : CarriesSku(src.segments, i))
    => OneRecordPerLin(src.segments, data)

\* no PID or CTP segment stands ahead of the first LIN segment, and no
\* segment identifier has white space in front of it
WellFormedEdi(segments) ==
    /\ \A i \in SegmentsOf(segments, "PID") \cup SegmentsOf(segments, "CTP") :
           LinBefore(segments, i) # 0
    /\ \A i \in 1..Len(segments) : Strip(segments[i][1]) = segments[i][1]

\* What does hold for C15: on such texts the records are those of the LIN
\* segments.
C15_OneRecordPerLinWellFormed ==
    (/\ EdiParsed
     /\ \A i \in SegmentsOf(src.segments, "LIN") : CarriesSku(src.segments, i)
     /\ WellFormedEdi(src.segments))
    => OneRecordPerLin(src.segments, data)

----------------------------------------------------------------------------
(* config/settings.py.  A configuration is a dict: each key holds a scalar  *)
(* or a section, itself a dict of scalars.  A dotted key 'ui.font_size' is  *)
(* the list of its parts.                                                   *)

Scalar(v) == [sec |-> FALSE, val |-> v, sub |-> <<>>]
Section(d) == [sec |-> TRUE, val |-> "", sub |-> d]

DEFAULT_CONFIG ==
    [theme |-> Scalar("default"),
     debug_mode |-> Scalar("False"),
     auto_backup |-> Scalar("True"),
     backup_interval_days |-> Scalar("7"),
     max_backups |-> Scalar("5"),
     ui |-> Section([font_size |-> "10", window_width |-> "1024",
                     window_height |-> "768"]),
     database |-> Section([type |-> "sqlite", host |-> "localhost",
                           port |-> "5432", name |-> "vendor_catalog",
                           user |-> "postgres", password |-> ""])]

\* config = DEFAULT_CONFIG.copy(); config.update(user_config): the keys of
\* user_config replace those of the copy, whole values at a time
Merged(defaults, user_config) ==
    [k \in DOMAIN defaults \cup DOMAIN user_config |->
        IF k \in DOMAIN user_config THEN user_config[k] ELSE defaults[k]]

\* load_config: the value it returns
load_config(f) ==
    IF f.exists
    THEN IF f.valid THEN Merged(DEFAULT_CONFIG, f.content)
         ELSE DEFAULT_CONFIG
    ELSE DEFAULT_CONFIG

\* save_config(DEFAULT_CONFIG), called by load_config when there is no file
AfterLoad(f) ==
    IF f.exists THEN f
    ELSE [exists |-> TRUE, valid |-> TRUE, content |-> DEFAULT_CONFIG]

\* the value of a section seen from outside
DictValue == "#dict"

\* get_setting(key, default): value = config; for k in keys: value =
\* value[k]; a KeyError or TypeError on the way returns default
GetSetting(cfg, keys, default) ==
    IF keys[1] \notin DOMAIN cfg THEN default
    ELSE LET value == cfg[keys[1]]
         IN IF Len(keys) = 1
            THEN IF value.sec THEN DictValue ELSE value.val
            ELSE IF ~value.sec \/ keys[2] \notin DOMAIN value.sub THEN default
                 ELSE value.sub[keys[2]]

\* initialize_settings: global config; config = load_config()
initialize_settings ==
    /\ pc = "settings"
    /\ config' = load_config(user_file)
    /\ user_file' = AfterLoad(user_file)
    /\ pc' = "loaded"
    /\ UNCHANGED <<argVars, dbVars, lateVars, uiVars, storeVars, procVars, procResult,
                   result, readerVars, setting>>

\* the dotted keys of the built-in defaults
DefaultKeys ==
    {<<k>> : k \in {x \in DOMAIN DEFAULT_CONFIG : ~DEFAULT_CONFIG[x].sec}}
    \cup UNION {{<<k, j>> : j \in DOMAIN DEFAULT_CONFIG[k].sub} :
                   k \in {x \in DOMAIN DEFAULT_CONFIG : DEFAULT_CONFIG[x].sec}}

\* get_setting(key, default)
get_setting ==
    /\ pc \in {"settings", "loaded"}
    /\ \E key \in DefaultKeys, default \in {NONE, "fallback"} :
         setting' = [key |-> key, default |-> default,
                     value |-> GetSetting(config, key, default), at |-> pc]
    /\ UNCHANGED <<pc, argVars, dbVars, lateVars, uiVars, storeVars, procVars, procResult,
                   result, readerVars, config, user_file>>

\* user files: none, one that is no JSON, and objects that set some keys
UserUi == { [font_size |-> "12"],
            [font_size |-> "12", window_width |-> "1280", window_height |-> "800"] }

UserDatabase ==
    { [type |-> "postgresql"],
      [type |-> "postgresql", host |-> "db"],
      [type |-> "postgresql", host |-> "db", port |-> "5433", name |-> "catalog",
       user |-> "app", password |-> "pw"] }

\* the object with the keys of d chosen in keys
Only(d, keys) == [k \in keys |-> d[k]]

UserConfigs ==
    {Only([theme |-> Scalar("dark"), ui |-> Section(u), database |-> Section(d)], keys) :
        u \in UserUi, d \in UserDatabase, keys \in SUBSET {"theme", "ui", "database"}}

UserFiles ==
    {NoUserFile, [exists |-> TRUE, valid |-> FALSE, content |-> EmptyConfig]}
    \cup {[exists |-> TRUE, valid |-> TRUE, content |-> c] : c \in UserConfigs}

InitSettings ==
    /\ entry = "settings"
    /\ pc = "settings"
    /\ vendors = Vendors
    /\ store = {}
    /\ nextId = FirstFreeId
    /\ vendor_id = "v1"
    /\ mapping = NoMapping
    /\ data = <<>>
    /\ src = NoSource
    /\ file = NoFile
    /\ InitLocals
    /\ InitDbIdle
    /\ InitUiIdle
    /\ InitLateIdle
    /\ config = EmptyConfig
    /\ user_file \in UserFiles
    /\ setting = NoSetting

NextSettings ==
    \/ initialize_settings
    \/ get_setting

SpecSettings == InitSettings /\ [][NextSettings]_vars

\* the user file is an object that sets the dotted key
UserSets(f, key) ==
    /\ f.exists /\ f.valid
    /\ key[1] \in DOMAIN f.content
    /\ IF Len(key) = 1 THEN ~f.content[key[1]].sec
       ELSE f.content[key[1]].sec /\ key[2] \in DOMAIN f.content[key[1]].sub

\* the value a dotted key has in a configuration that holds it
ValueIn(cfg, key) ==
    IF Len(key) = 1 THEN cfg[key[1]].val ELSE cfg[key[1]].sub[key[2]]

\* get_setting was called after the configuration was loaded
AskedAfterLoad == setting.key # <<>> /\ setting.at = "loaded"

\* the value a key of the defaults is to resolve to
Resolved(f, key) ==
    IF UserSets(f, key) THEN ValueIn(f.content, key)
    ELSE ValueIn(DEFAULT_CONFIG, key)

\* C18: settings merge: after load_config every key of the built-in
\* defaults, nested keys included, resolves through get_setting to the
\* user's value when the user file sets it and to the built-in default
\* otherwise.  It fails: the merge replaces a nested section as a whole, so
\* a user file that sets part of a section removes the rest of it.
C18_SettingsMerge ==
    AskedAfterLoad => setting.value = Resolved(user_file, setting.key)

\* every section the user file sets, it sets in full
FullSections(f) ==
    \A k \in DOMAIN f.content :
        f.content[k].sec => DOMAIN f.content[k].sub = DOMAIN DEFAULT_CONFIG[k].sub

\* What does hold for C18: the keys resolve as stated when the user file
\* sets no section partially.
C18_SettingsMergeFullSections ==
    (AskedAfterLoad /\ FullSections(user_file))
    => setting.value = Resolved(user_file, setting.key)

----------------------------------------------------------------------------
(* Properties of import_from_sftp_multi *)

\* the sum of the counts, and the concatenation of the error lists, of the
\* first k per-directory results
RECURSIVE SumCounts(_, _)
SumCounts(results, k) ==
    IF k = 0 THEN 0 ELSE SumCounts(results, k - 1) + results[k].count

RECURSIVE ConcatErrors(_, _)
ConcatErrors(results, k) ==
    IF k = 0 THEN <<>> ELSE ConcatErrors(results, k - 1) \o results[k].errors

\* a call of import_from_sftp_multi has returned
MultiDone == pc = "done" /\ entry = "multi"

\* C19: multi-directory import: every configured directory is processed, in
\* list order, whatever happened in the earlier ones; the returned count is
\* the sum of the per-directory counts and the returned error list is the
\* concatenation, in directory order, of the per-directory error lists.
C19_MultiAggregates ==
    MultiDone =>
        /\ multi.visited = [k \in 1..Len(src.configs) |-> k]
        /\ Len(multi.results) = Len(src.configs)
        /\ result = Returned(SumCounts(multi.results, Len(multi.results)),
                             ConcatErrors(multi.results, Len(multi.results)))

\* two directories: the first one failed, the second one was imported
C19_Witness ==
    /\ MultiDone
    /\ Len(src.configs) = 2
    /\ Len(multi.results) = 2
    /\ multi.results[1].count = 0
    /\ multi.results[1].errors # <<>>
    /\ multi.results[2].count > 0
    /\ result.count = multi.results[2].count

----------------------------------------------------------------------------
(* The import frames: v1/views/import_view.py (ImportFrame with the Start   *)
(* Import button) and views/import_view2test.py (ImportFrame with the       *)
(* import_in_progress flag).  The Tk main loop runs the frame's handlers    *)
(* and the callbacks scheduled with after(0, ...), one at a time; every     *)
(* import runs on a worker thread of its own.                               *)

MaxImports == 3
Workers == 1..MaxImports

Frames == {"v1", "v2test"}

\* how the import function called on the worker thread can end.  The v1
\* frame calls the import controller of its own tree: it returns (imported,
\* errors) or raises.  import_view2test calls
\* ImportController.import_from_file(vendor_id, file_path, mappings) and
\* import_from_api(vendor_id, api_url, auth_config, headers,
\* pagination_config, mappings): with the parameters of import_controller.py
\* both calls raise TypeError.
ImportOutcomes(frame) ==
    IF frame = "v1" THEN {"returned", "raised"} ELSE {"raised"}

\* the worker threads that were started and have not ended
Alive == {w \in DOMAIN threads : threads[w] \in {"running", "tail", "except"}}

\* the thread the next threading.Thread(...).start() creates
NextWorker == Min({w \in Workers : threads[w] = "unborn"})

\* the frame accepts a new import
Ready(u) ==
    IF u.frame = "v1" THEN u.import_button = "normal" ELSE ~u.import_in_progress

\* self.import_button.config(state="disabled") / self.import_in_progress = True
Blocked(u) ==
    IF u.frame = "v1" THEN [u EXCEPT !.import_button = "disabled", !.status = "running"]
    ELSE [u EXCEPT !.import_in_progress = TRUE, !.status = "running"]

\* self.import_button.config(state="normal") / self.import_in_progress = False
Released(u, status) ==
    IF u.frame = "v1" THEN [u EXCEPT !.import_button = "normal", !.status = status]
    ELSE [u EXCEPT !.import_in_progress = FALSE, !.status = status]

\* a frame that starts a worker whatever its start control says
NeverGuarded(u) == FALSE

\* the guard at the head of import_file and import_from_api; in the v1 frame
\* Tk does not call the command of a disabled button
Guarded(u) == ~Ready(u)

\* the user presses Start Import (v1: _start_import and _perform_file_import,
\* _perform_sftp_import, _perform_multi_dir_sftp_import) or calls import_file
\* / import_from_api (import_view2test).  A missing file path, host or vendor
\* ends the handler before any thread is started.
start_import ==
    /\ pc = "ui"
    /\ \E w \in Workers : threads[w] = "unborn"
    /\ ~(ui.frame = "v1" /\ Guarded(ui))
    /\ \E valid \in BOOLEAN :
         IF ui.frame = "v2test" /\ Guarded(ui)
         THEN /\ ui' = [ui EXCEPT !.status = "already_in_progress"]
              /\ UNCHANGED threads
         ELSE IF ~valid
         THEN /\ ui' = [ui EXCEPT !.status = "rejected"]
              /\ UNCHANGED threads
         ELSE /\ ui' = Blocked(ui)
              /\ threads' = [threads EXCEPT ![NextWorker] = "running"]
    /\ UNCHANGED <<pc, argVars, dbVars, lateVars, cfgVars, storeVars, procVars, procResult,
                   result, readerVars, after_queue, reports>>

\* the worker thread: import_thread (v1) / _run_import_process: the import
\* function is called and a callback is handed to the main loop, the result
\* callback from the try block, the error callback from inside the except
\* block, where the exception is still bound to e
worker_import(w) ==
    /\ pc = "ui"
    /\ threads[w] = "running"
    /\ \E ending \in ImportOutcomes(ui.frame) :
         IF ending = "returned"
         THEN /\ after_queue' = Append(after_queue, [worker |-> w, kind |-> "result"])
              /\ threads' = [threads EXCEPT ![w] = "tail"]
         ELSE /\ after_queue' = Append(after_queue, [worker |-> w, kind |-> "error"])
              /\ threads' = [threads EXCEPT ![w] = "except"]
    /\ UNCHANGED <<pc, argVars, dbVars, lateVars, cfgVars, storeVars, procVars, procResult,
                   result, readerVars, ui, reports>>

\* the worker thread leaves the except block, which unbinds e, and ends
worker_exit(w) ==
    /\ pc = "ui"
    /\ threads[w] \in {"tail", "except"}
    /\ threads' = [threads EXCEPT ![w] = "done"]
    /\ UNCHANGED <<pc, argVars, dbVars, lateVars, cfgVars, storeVars, procVars, procResult,
                   result, readerVars, ui, after_queue, reports>>

\* what running a callback does.  lambda: self._handle_import_error(str(e))
\* reads e when it runs: once the worker has left the except block the
\* name is unbound and the callback raises NameError before the handler is
\* called.  _handle_import_result of import_view2test reads result.get(...).
CallbackRuns(cb) ==
    IF cb.kind = "result" THEN ui.frame = "v1"
    ELSE threads[cb.worker] = "except"

\* the main loop runs the oldest scheduled callback: _update_import_results
\* / _handle_import_result, or _handle_import_error
mainloop_callback ==
    /\ pc = "ui"
    /\ after_queue # <<>>
    /\ LET cb == Head(after_queue)
           left == IF CallbackRuns(cb) THEN Released(ui, cb.kind) ELSE ui
       IN /\ ui' = left
          /\ reports' = Append(reports, [worker |-> cb.worker, kind |-> cb.kind,
                                         handled |-> CallbackRuns(cb),
                                         ready |-> Ready(left)])
    /\ after_queue' = Tail(after_queue)
    /\ UNCHANGED <<pc, argVars, dbVars, lateVars, cfgVars, storeVars, procVars, procResult,
                   result, readerVars, threads>>

InitUi ==
    /\ entry = "ui"
    /\ pc = "ui"
    /\ vendors = Vendors
    /\ store = {}
    /\ nextId = FirstFreeId
    /\ vendor_id = "v1"
    /\ mapping = NoMapping
    /\ data = <<>>
    /\ src = NoSource
    /\ file = NoFile
    /\ InitLocals
    /\ InitDbIdle
    /\ InitSettingsIdle
    /\ InitLateIdle
    /\ ui \in {[NoFrame EXCEPT !.frame = f] : f \in Frames}
    /\ threads = [w \in Workers |-> "unborn"]
    /\ after_queue = <<>>
    /\ reports = <<>>

NextUi ==
    \/ start_import
    \/ \E w \in Workers : worker_import(w)
    \/ \E w \in Workers : worker_exit(w)
    \/ mainloop_callback

SpecUi == InitUi /\ [][NextUi]_vars

\* a started thread runs, and the main loop keeps taking callbacks; the
\* user is free never to start an import
SpecUiFair ==
    /\ SpecUi
    /\ \A w \in Workers : WF_vars(worker_import(w)) /\ WF_vars(worker_exit(w))
    /\ WF_vars(mainloop_callback)

----------------------------------------------------------------------------
(* Properties of the import frames *)

\* the worker was started
Started(w) == threads[w] # "unborn"

\* the completion callback of worker w ran to its end and left the frame
\* ready for a new import
Completed(w) ==
    \E i \in 1..Len(reports) :
        reports[i].worker = w /\ reports[i].handled /\ reports[i].ready

\* the callbacks of worker w that the main loop ran
ReportsOf(w) == {i \in 1..Len(reports) : reports[i].worker = w}

\* C16: background import completion: every import started on a worker
\* thread eventually delivers exactly one completion callback on the main
\* thread, a result report when the import function returns and an error
\* report when it raises, and after that callback the frame is ready for a
\* new import.  It fails: the error callback reads the exception variable
\* after the except block has unbound it, raises NameError, and the start
\* control is never released.
C16_ImportCompletes ==
    \A w \in Workers : Started(w) ~> Completed(w)

\* What does hold for C16: every started import gets exactly one callback
\* run by the main loop, and a v1 import whose function returned is
\* reported and leaves the Start Import button enabled.
C16_OneCallbackEach ==
    /\ \A w \in Workers : Started(w) ~> (Cardinality(ReportsOf(w)) = 1)
    /\ [](\A w \in Workers : Cardinality(ReportsOf(w)) <= 1)
    /\ \A w \in Workers : (ui.frame = "v1" /\ threads[w] = "tail") ~> Completed(w)

\* an import is in flight: its function is running, or its completion
\* callback waits in the main loop's queue
InFlight ==
    {w \in Workers :
        \/ threads[w] = "running"
        \/ \E i \in 1..Len(after_queue) : after_queue[i].worker = w}

\* C20 as stated: at any moment at most one worker thread started by one
\* frame is alive.  It fails: a worker that has handed its callback to the
\* main loop is still alive, on its way out, when the callback releases the
\* start control and lets the next worker start.
C20_OneWorkerAlive ==
    Cardinality(Alive) <= 1

\* C20, amended: while an import is in flight the frame starts no second
\* worker: import_file and import_from_api return with 'Import already in
\* progress', the v1 button is disabled, and at most one worker is running
\* its import or waiting for its completion callback.
C20_OneImportInFlight ==
    /\ Cardinality(InFlight) <= 1
    /\ InFlight # {} => ~Ready(ui)

\* import_view2test refused a second import while the first was running
C20_Witness ==
    /\ ui.frame = "v2test"
    /\ ui.status = "already_in_progress"
    /\ \E w \in Workers : threads[w] = "running"
    /\ Cardinality(InFlight) = 1

----------------------------------------------------------------------------
(* Unknown vendor *)

\* the one error _process_mapped_data returns for a vendor id no vendor has
VendorNotFound == Returned(0, <<Error("vendor_not_found", <<>>)>>)

\* C30: when the target vendor id does not exist, _process_mapped_data
\* returns (0, [one 'Vendor with ID ... not found' error]) without examining
\* any record of the batch (the loop is never entered, no store call is
\* made, no record gets an outcome) and the store is left as it was; this
\* holds under every reader that feeds it (file, API, SFTP, EDI).
C30_UnknownVendor ==
    [][vendor_id \notin vendors =>
         /\ store' = store
         /\ nextId' = nextId
         /\ pc' # "loop"
         /\ oplog' = <<>>
         /\ outcome' = <<>>
         /\ written' = 0
         /\ (pc = "proc" /\ procResult'.status = "returned"
               => procResult' = VendorNotFound)]_vars

\* an SFTP import for an unknown vendor handed a downloaded file's records
\* to _process_mapped_data, which returned the one error
C30_Witness ==
    /\ vendor_id \notin vendors
    /\ entry \in {"file", "api", "sftp", "edi"}
    /\ pc = "proc_done"
    /\ Len(data) > 0
    /\ procResult = VendorNotFound
    /\ idx = 0

----------------------------------------------------------------------------
(* Duplicate skus inside one batch *)

\* the canonical record the mapper builds from record i of the batch
MappedAt(i) == ApplyMapping(data[i], EffectiveMapping(mapping))

\* every record of the batch is valid and all carry one sku, k >= 2 times
SameSkuBatch ==
    /\ Len(data) >= 2
    /\ \A i \in 1..Len(data) :
         /\ IsDict(data[i])
         /\ Validate(MappedAt(i)) = "ok"
         /\ MappedAt(i)["sku"] = MappedAt(1)["sku"]

\* C27: a batch for an existing vendor that contains the same sku k >= 2
\* times, the vendor having no row with that sku (the first occurrence was
\* inserted), is upserted in record order: the first occurrence inserts,
\* each later one updates the same row; exactly one row of the vendor has
\* the sku, it holds the values of the last occurrence, and all k records
\* are counted as successes with no error.
C27_DuplicateSkus ==
    ( /\ pc = "proc_done"
      /\ procResult.status = "returned"
      /\ get_by_id(vendors, vendor_id)
      /\ SameSkuBatch
      /\ NoStoreFault
      /\ outcome[1] = "created" )
    => LET k == Len(data)
           rows == get_by_vendor_sku(store, vendor_id, MappedAt(1)["sku"])
       IN /\ outcome = [i \in 1..k |-> IF i = 1 THEN "created" ELSE "updated"]
          /\ procResult = Returned(k, <<>>)
          /\ Cardinality(rows) = 1
          /\ \A r \in rows :
               /\ r.id = FirstFreeId
               /\ \A f \in DOMAIN MappedAt(k) : r.data[f] = MappedAt(k)[f]
          /\ nextId = FirstFreeId + 1

\* the batch named sku A twice, under two aliases and with two names, for a
\* vendor that had no row with it
C27_Witness ==
    /\ pc = "proc_done"
    /\ procResult.status = "returned"
    /\ vendor_id \in vendors
    /\ SameSkuBatch
    /\ outcome[1] = "created"
    /\ MappedAt(1)["name"] # MappedAt(Len(data))["name"]
    /\ procResult.count = Len(data)

----------------------------------------------------------------------------
(* The count import_from_sftp returns *)

\* C23: the count returned by import_from_sftp equals the number of records
\* written to the store during that call, on every path, including when a
\* transport or download error occurs after earlier matching files of the
\* same directory were imported.
C23_SftpCountIsWritten ==
    (entry = "sftp" /\ pc = "done" /\ result.status = "returned")
    => result.count = written

\* the same, for the calls in which no transport or download error occurs
C23_SftpCountIsWrittenNoTransportError ==
    ( /\ entry = "sftp" /\ pc = "done" /\ result.status = "returned"
      /\ \A i \in 1..Len(failure) : failure[i] \notin SftpTransportFailures )
    => result.count = written

----------------------------------------------------------------------------
(* import_from_api fetches before it writes *)

\* a request of the call failed or was answered with a body that is no JSON
RequestFailed == failure # <<>>

\* C24: import_from_api fetches before it writes: while pages are being
\* fetched no store lookup or write happens, so if the first request or any
\* later page request fails, or a response is not valid JSON, the call
\* returns (0, [one error string]) and the store is exactly as it was
\* before the call, whatever number of pages had already been fetched.
C24_FetchBeforeWrite ==
    [][entry = "api" =>
         /\ pc \in {"api", "api_page"} =>
              /\ store' = store
              /\ nextId' = nextId
              /\ oplog' = <<>>
              /\ written' = 0
         /\ RequestFailed' =>
              /\ pc' = "done"
              /\ result'.status = "returned"
              /\ result'.count = 0
              /\ Len(result'.errors) = 1
              /\ result'.errors[1].kind \in {"api_request_failed", "api_invalid_json"}
              /\ store' = store
              /\ oplog' = <<>>
              /\ written' = 0]_vars

\* the request for the second page failed after the first page, which
\* carried items, had been fetched
C24_Witness ==
    /\ entry = "api"
    /\ pc = "done"
    /\ RequestFailed
    /\ Len(api.requests) >= 2
    /\ api.all_data # <<>>
    /\ result.count = 0
    /\ written = 0

----------------------------------------------------------------------------
(* Bulk upsert: one row per (vendor, sku), idempotence *)

\* the step that ends a bulk_insert call, by its return or by an exception
BulkEnds == pc = "bulk" /\ pc' = "idle"

\* the call's input can be written: the vendor exists, every value binds
BulkInputWritable ==
    /\ bulk.vendor_id \in vendors
    /\ Bindable(bulk.products_data)

\* the distinct skus of the input
InputSkus == {bulk.products_data[k].sku : k \in 1..Len(bulk.products_data)}

\* the rows of vendor v that carry sku s
RowsWith(st, v, s) == {r \in st : r.vendor_id = v /\ r.sku = s}

\* a table without its row identities: what the rows say
Values(st) == {[vendor_id |-> r.vendor_id, sku |-> r.sku, data |-> r.data] : r \in st}

\* after holds one row of v per sku, and as many more rows of v than before
\* as there are skus that before did not hold
UpsertedOnce(before, after, v, skus) ==
    /\ \A s \in skus : Cardinality(RowsWith(after, v, s)) = 1
    /\ Cardinality(RowsOf(after, v))
         = Cardinality(RowsOf(before, v))
           + Cardinality({s \in skus : RowsWith(before, v, s) = {}})

\* the table after the same input is written to st once more
WrittenAgain(st, id) ==
    WriteBatch(st, id, bulk.vendor_id, bulk.products_data, 1)

\* C22: bulk upsert is keyed on (vendor, sku) and idempotent: after
\* bulk_insert for a vendor the store holds exactly one row for each distinct
\* sku of the input under that vendor, the vendor's row count has grown by
\* the number of input skus that did not exist before, and running the same
\* bulk_insert a second time leaves the row count and the stored values
\* unchanged.
C22_BulkUpsert ==
    [][(BulkEnds /\ BulkInputWritable) =>
         /\ sql'.status = "ok"
         /\ UpsertedOnce(store, store', bulk.vendor_id, InputSkus)
         /\ Cardinality(WrittenAgain(store', nextId')) = Cardinality(store')
         /\ Values(WrittenAgain(store', nextId')) = Values(store')]_vars

\* the same on the embedded database, whose statement is accepted
C22_BulkUpsertSqlite ==
    [][(BulkEnds /\ BulkInputWritable /\ backend = "sqlite") =>
         /\ sql'.status = "ok"
         /\ UpsertedOnce(store, store', bulk.vendor_id, InputSkus)
         /\ Cardinality(WrittenAgain(store', nextId')) = Cardinality(store')
         /\ Values(WrittenAgain(store', nextId')) = Values(store')]_vars

----------------------------------------------------------------------------
(* The v1 schema: the create_table methods, DatabaseFactory's               *)
(* initialize_database, and the controllers that update a row from the      *)
(* tuple SELECT * returns.  Every value of a row is a string here, NONE for *)
(* NULL.                                                                    *)

\* everything these calls leave alone
coreVars == <<pc, argVars, storeVars, procVars, procResult, result, readerVars,
              dbVars, cfgVars, uiVars>>

\* the column lists of the CREATE TABLE statements, in their order
VendorColumns == <<"id", "name", "description", "contact_info", "status">>
ProductColumns == <<"id", "name", "description", "sku", "price", "status">>
MasterProductColumns ==
    <<"id", "name", "description", "sku", "upc", "manufacturer",
      "manufacturer_part_number", "category_id", "specs", "status">>
VendorProductFull ==
    <<"id", "vendor_id", "master_product_id", "vendor_sku", "vendor_price",
      "list_price", "map_price", "mrp_price", "quantity", "quantity_nj",
      "quantity_fl", "eta", "eta_nj", "eta_fl", "shipping_weight",
      "shipping_dimensions", "props", "status">>
VendorProductNoMaster ==
    SelectSeq(VendorProductFull, LAMBDA c : c # "master_product_id")
VendorProductJoin == <<"vendor_id", "product_id", "vendor_sku", "vendor_price">>

\* UNIQUE(vendor_id, vendor_sku)
NaturalKey == {"vendor_id", "vendor_sku"}

\* required_columns of VendorProductPostgres.create_table, in dict order
RequiredColumns ==
    SelectSeq(VendorProductFull, LAMBDA c : c \notin {"id", "vendor_id"})

Table(columns, unique, refs, id_default) ==
    [columns |-> columns, unique |-> unique, refs |-> refs, id_default |-> id_default]

Exists(t, name) == t[name].columns # <<>>

\* what a create_table call did: the schema after it, whether it raised,
\* the tables it created with the tables their foreign keys name
Ran(t, raised, created) == [tables |-> t, raised |-> raised, created |-> created]

\* CREATE TABLE IF NOT EXISTS name (...).  PostgreSQL refuses a foreign key
\* that names a table that does not exist; SQLite does not look.
CreateTable(db_type, t, name, def) ==
    IF Exists(t, name) THEN Ran(t, FALSE, <<>>)
    ELSE IF db_type = "postgresql" /\ \E r \in def.refs : ~Exists(t, r)
    THEN Ran(t, TRUE, <<>>)
    ELSE Ran([t EXCEPT ![name] = def], FALSE, <<[table |-> name, refs |-> def.refs]>>)

\* Vendor.create_table / VendorPostgres.create_table
VendorCreateTable(db_type, t) ==
    CreateTable(db_type, t, "vendors", Table(VendorColumns, {}, {}, TRUE))

\* Product.create_table / ProductPostgres.create_table: products, then the
\* vendor_products join table, one commit after both
ProductCreateTable(db_type, t) ==
    LET first == CreateTable(db_type, t, "products",
                             Table(ProductColumns, {{"sku"}}, {}, TRUE))
        second == CreateTable(db_type, first.tables, "vendor_products",
                              Table(VendorProductJoin, {{"vendor_id", "product_id"}},
                                    {"vendors", "products"}, FALSE))
    IN IF second.raised THEN Ran(t, TRUE, <<>>)
       ELSE Ran(second.tables, FALSE, first.created \o second.created)

\* MasterProduct.create_table / MasterProductPostgres.create_table
MasterProductCreateTable(db_type, t) ==
    CreateTable(db_type, t, "master_products",
                Table(MasterProductColumns, {{"sku"}},
                      IF db_type = "postgresql" THEN {} ELSE {"categories"}, TRUE))

\* the else branch of VendorProductPostgres.create_table: the table exists;
\* the id default is repaired when there is an id column, every missing
\* required column is added at the end, the master-product key is added
AlterVendorProducts(tab, master_products_exists) ==
    LET missing == SelectSeq(RequiredColumns, LAMBDA c : c \notin Range(tab.columns))
    IN [columns |-> tab.columns \o missing,
        unique |-> tab.unique,
        refs |-> tab.refs \cup (IF master_products_exists
                                THEN {"master_products"} ELSE {}),
        id_default |-> tab.id_default \/ "id" \in Range(tab.columns)]

\* VendorProductPostgres.create_table
VendorProductCreateTable(t) ==
    LET master_products_exists == Exists(t, "master_products")
    IN IF ~Exists(t, "vendor_products")
       THEN CreateTable("postgresql", t, "vendor_products",
                Table(IF master_products_exists
                      THEN VendorProductFull ELSE VendorProductNoMaster,
                      {NaturalKey},
                      IF master_products_exists
                      THEN {"vendors", "master_products"} ELSE {"vendors"},
                      TRUE))
       ELSE Ran([t EXCEPT !["vendor_products"] =
                    AlterVendorProducts(@, master_products_exists)], FALSE, <<>>)

\* the controllers initialize_database calls, by the table of each
ControllersOf(db_type) ==
    IF db_type = "postgresql"
    THEN <<"vendor_products", "vendors", "products", "master_products">>
    ELSE <<"vendors", "products", "master_products">>

\* <controller>.initialize_database()
ControllerInitialize(db_type, which, t) ==
    CASE which = "vendors" -> VendorCreateTable(db_type, t)
      [] which = "products" -> ProductCreateTable(db_type, t)
      [] which = "master_products" -> MasterProductCreateTable(db_type, t)
      [] OTHER -> VendorProductCreateTable(t)

\* the rows of a table after columns were added to it: NULL in the new ones
Widened(rws, columns) ==
    {[c \in Range(columns) |-> IF c \in DOMAIN r THEN r[c] ELSE NONE] : r \in rws}

RowsAfter(rws, t) ==
    [rws EXCEPT !["vendor_products"] = Widened(@, t["vendor_products"].columns)]

\* DatabaseFactory.initialize_database: lines 153-164
initialize_database ==
    /\ dbinit.status # "running"
    /\ dbinit' = [dbinit EXCEPT !.status = "running",
                                !.order = ControllersOf(dbinit.db_type),
                                !.i = 0,
                                !.created = <<>>,
                                !.from_empty = (db_tables = NoTables)]
    /\ UNCHANGED <<coreVars, db_tables, db_rows, ctl, raceVars, pair>>

\* lines 165-170: the next controller's initialize_database; an exception
\* leaves initialize_database
initialize_database_step ==
    /\ dbinit.status = "running"
    /\ dbinit.i < Len(dbinit.order)
    /\ LET ran == ControllerInitialize(dbinit.db_type, dbinit.order[dbinit.i + 1],
                                       db_tables)
       IN /\ db_tables' = ran.tables
          /\ db_rows' = RowsAfter(db_rows, ran.tables)
          /\ dbinit' = [dbinit EXCEPT !.status = IF ran.raised THEN "raised" ELSE @,
                                      !.i = @ + 1,
                                      !.created = @ \o ran.created]
    /\ ctl' = NoCall
    /\ UNCHANGED <<coreVars, raceVars, pair>>

\* line 172
initialize_database_return ==
    /\ dbinit.status = "running"
    /\ dbinit.i = Len(dbinit.order)
    /\ dbinit' = [dbinit EXCEPT !.status = "done"]
    /\ UNCHANGED <<coreVars, db_tables, db_rows, ctl, raceVars, pair>>

\* one controller's initialize_database called on its own (the test and
\* setup entry points do)
controller_initialize_database ==
    /\ dbinit.status # "running"
    /\ \E which \in Range(ControllersOf(dbinit.db_type)) :
         LET ran == ControllerInitialize(dbinit.db_type, which, db_tables)
         IN /\ db_tables' = ran.tables
            /\ db_rows' = RowsAfter(db_rows, ran.tables)
            /\ ctl' = [NoCall EXCEPT !.op = "initialize_database",
                                     !.id = which,
                                     !.status = IF ran.raised THEN "raised" ELSE "None"]
    /\ UNCHANGED <<coreVars, dbinit, raceVars, pair>>

\* bounds of the rows the calls below create
MaxVendorRows == 1
MaxProductRows == 1
MaxVendorProductRows == 1

\* the ids a serial column hands out, as the strings the rows hold
IdNames == <<"1", "2", "3", "4", "5", "6">>
NextIdOf(rws) == IdNames[Cardinality(rws) + 1]

\* column types of the CREATE TABLE statements
IntegerColumns == {"id", "vendor_id", "master_product_id", "product_id",
                   "quantity", "quantity_nj", "quantity_fl"}
NumericColumns == {"vendor_price", "list_price", "map_price", "mrp_price",
                   "shipping_weight", "price"}
IntegerValues == {"0", "1", "2", "3", "4", "5", "6", "10", "25"}
DecimalValues == {"39.99", "41.99", "49.99"}

\* PostgreSQL casts a parameter to the column's type and refuses text that
\* is not a number; SQLite stores whatever it is given
Accepts(db_type, column, v) ==
    \/ db_type # "postgresql"
    \/ v = NONE
    \/ column \notin IntegerColumns \cup NumericColumns
    \/ v \in IntegerValues \cup DecimalValues

\* rows of a table that hold the same non-NULL values as r in every column of
\* one of its unique constraints
Duplicates(tab, rws, r) ==
    {o \in rws : \E u \in tab.unique :
        /\ u \subseteq Range(tab.columns)
        /\ \A c \in u : o[c] # NONE /\ o[c] = r[c]}

\* a foreign key of the table names a row that is not there (PostgreSQL
\* only: the SQLite connections never turn foreign keys on)
Orphan(db_type, t, rws, name, r) ==
    /\ db_type = "postgresql"
    /\ \/ /\ "vendors" \in t[name].refs
          /\ r["vendor_id"] # NONE
          /\ \A v \in rws["vendors"] : v["id"] # r["vendor_id"]
       \/ /\ "master_products" \in t[name].refs
          /\ "master_product_id" \in DOMAIN r
          /\ r["master_product_id"] # NONE

\* SELECT * ... WHERE id = %s, fetchone(): the row as a tuple in the table's
\* column order
Tuple(r, columns) == [k \in 1..Len(columns) |-> r[columns[k]]]

\* tuple[k] of Python, 0-based; out of range raises IndexError
Index(tuple, k) == IF k < Len(tuple) THEN tuple[k + 1] ELSE "IndexError"

\* the constructor arguments each update_* fills from indices 1, 2, ... of
\* the tuple
VendorFields == <<"name", "description", "contact_info", "status">>
ProductFields == <<"name", "description", "sku", "price", "status">>
VendorProductFields == Tail(VendorProductFull)

Outcome(rws, status) == [rows |-> rws, status |-> status]

\* update_vendor / update_product / update_vendor_product: find_by_id, a
\* model object built from the arguments that are not None and from the
\* tuple otherwise, then update(), which writes every field back
ControllerUpdate(db_type, t, rws, name, fields, id, args) ==
    LET tab == t[name]
        found == {r \in rws[name] : "id" \in DOMAIN r /\ r["id"] = id}
    IN IF ~Exists(t, name) \/ "id" \notin Range(tab.columns)
       THEN Outcome(rws, "raised")
       ELSE IF found = {} THEN Outcome(rws, "False")
       ELSE LET old == CHOOSE r \in found : TRUE
                vendor_data == Tuple(old, tab.columns)
                object == [f \in Range(fields) |->
                             IF f \in DOMAIN args THEN args[f]
                             ELSE Index(vendor_data, CHOOSE k \in DOMAIN fields : fields[k] = f)]
                new == [c \in DOMAIN old |->
                          IF c \in Range(fields) THEN object[c] ELSE old[c]]
            IN IF \/ \E f \in Range(fields) : object[f] = "IndexError"
                  \/ ~(Range(fields) \subseteq Range(tab.columns))
                  \/ \E f \in Range(fields) : ~Accepts(db_type, f, object[f])
                  \/ Orphan(db_type, t, rws, name, new)
                  \/ Duplicates(tab, rws[name] \ {old}, new) # {}
               THEN Outcome(rws, "raised")
               ELSE Outcome([rws EXCEPT ![name] = (@ \ {old}) \cup {new}], "True")

\* save(): INSERT of the named fields with the next id
ModelSave(db_type, t, rws, name, fields, values) ==
    LET tab == t[name]
        new == [c \in Range(tab.columns) |->
                  IF c = "id" THEN NextIdOf(rws[name])
                  ELSE IF c \in DOMAIN values THEN values[c] ELSE NONE]
    IN IF \/ ~Exists(t, name)
          \/ ~(Range(fields) \cup {"id"} \subseteq Range(tab.columns))
          \/ Orphan(db_type, t, rws, name, new)
          \/ Duplicates(tab, rws[name], new) # {}
       THEN Outcome(rws, "raised")
       ELSE Outcome([rws EXCEPT ![name] = @ \cup {new}], new["id"])

Called(op, id, args, out) ==
    [op |-> op, id |-> id, args |-> args, status |-> out.status, before |-> db_rows]

\* the arguments the calls are made with
VendorValues == {[name |-> "Acme", status |-> "active"]}
ProductValues == {[name |-> "Widget", sku |-> "W-1", price |-> "39.99", status |-> "active"]}
VendorProductValues ==
    {[vendor_id |-> "1", vendor_sku |-> s, vendor_price |-> "39.99",
      list_price |-> "49.99", quantity |-> "10", quantity_nj |-> "0",
      quantity_fl |-> "0", props |-> "{}", status |-> "active"] : s \in {"A", NONE}}
VendorArgs == {[name |-> "Apex"], [status |-> "inactive"]}
ProductArgs == {[price |-> "41.99", status |-> "inactive"]}
VendorProductArgs ==
    {[vendor_price |-> "41.99", list_price |-> "49.99", quantity |-> "25", props |-> "{}"],
     [status |-> "inactive"]}

NoInitRunning == dbinit.status # "running"

\* VendorController.create_vendor
create_vendor ==
    /\ NoInitRunning
    /\ Cardinality(db_rows["vendors"]) < MaxVendorRows
    /\ \E values \in VendorValues :
         LET out == ModelSave(dbinit.db_type, db_tables, db_rows, "vendors",
                              VendorFields, values)
         IN /\ db_rows' = out.rows
            /\ ctl' = Called("create_vendor", NONE, values, out)
    /\ UNCHANGED <<coreVars, db_tables, dbinit, raceVars, pair>>

\* ProductController.create_product
create_product ==
    /\ NoInitRunning
    /\ Cardinality(db_rows["products"]) < MaxProductRows
    /\ \E values \in ProductValues :
         LET out == ModelSave(dbinit.db_type, db_tables, db_rows, "products",
                              ProductFields, values)
         IN /\ db_rows' = out.rows
            /\ ctl' = Called("create_product", NONE, values, out)
    /\ UNCHANGED <<coreVars, db_tables, dbinit, raceVars, pair>>

\* VendorProductPostgresController.create_vendor_product
create_vendor_product ==
    /\ NoInitRunning
    /\ dbinit.db_type = "postgresql"
    /\ Cardinality(db_rows["vendor_products"]) < MaxVendorProductRows
    /\ \E values \in VendorProductValues :
         LET out == ModelSave("postgresql", db_tables, db_rows, "vendor_products",
                              VendorProductFields, values)
         IN /\ db_rows' = out.rows
            /\ ctl' = Called("create_vendor_product", NONE, values, out)
    /\ UNCHANGED <<coreVars, db_tables, dbinit, raceVars, pair>>

\* VendorController.update_vendor
update_vendor ==
    /\ NoInitRunning
    /\ \E id \in {"1", "2"}, args \in VendorArgs :
         LET out == ControllerUpdate(dbinit.db_type, db_tables, db_rows, "vendors",
                                     VendorFields, id, args)
         IN /\ db_rows' = out.rows
            /\ ctl' = Called("update_vendor", id, args, out)
    /\ UNCHANGED <<coreVars, db_tables, dbinit, raceVars, pair>>

\* ProductController.update_product
update_product ==
    /\ NoInitRunning
    /\ \E id \in {"1", "2"}, args \in ProductArgs :
         LET out == ControllerUpdate(dbinit.db_type, db_tables, db_rows, "products",
                                     ProductFields, id, args)
         IN /\ db_rows' = out.rows
            /\ ctl' = Called("update_product", id, args, out)
    /\ UNCHANGED <<coreVars, db_tables, dbinit, raceVars, pair>>

\* VendorProductPostgresController.update_vendor_product
update_vendor_product ==
    /\ NoInitRunning
    /\ dbinit.db_type = "postgresql"
    /\ \E id \in {"1", "3"}, args \in VendorProductArgs :
         LET out == ControllerUpdate("postgresql", db_tables, db_rows, "vendor_products",
                                     VendorProductFields, id, args)
         IN /\ db_rows' = out.rows
            /\ ctl' = Called("update_vendor_product", id, args, out)
    /\ UNCHANGED <<coreVars, db_tables, dbinit, raceVars, pair>>

\* a database of either type, empty, nothing running
\* the import controller at rest while the calls of section e run
InitOutside(e) ==
    /\ entry = e
    /\ pc = e
    /\ vendors = Vendors
    /\ store = {}
    /\ nextId = FirstFreeId
    /\ vendor_id = "v1"
    /\ mapping = NoMapping
    /\ data = <<>>
    /\ src = NoSource
    /\ file = NoFile
    /\ InitLocals
    /\ InitDbIdle
    /\ InitSettingsIdle
    /\ InitUiIdle

InitSchema ==
    /\ InitOutside("schema")
    /\ db_tables = NoTables
    /\ db_rows = NoRows
    /\ dbinit \in {[NoInit EXCEPT !.db_type = d] : d \in {"sqlite", "postgresql"}}
    /\ ctl = NoCall
    /\ savers = <<>>
    /\ imports = <<>>
    /\ pair = NoPair

NextSchema ==
    \/ initialize_database
    \/ initialize_database_step
    \/ initialize_database_return
    \/ controller_initialize_database
    \/ create_vendor
    \/ create_product
    \/ create_vendor_product
    \/ update_vendor
    \/ update_product
    \/ update_vendor_product

SpecSchema == InitSchema /\ [][NextSchema]_vars

----------------------------------------------------------------------------
(* C28: initializing an empty database, on SQLite and on PostgreSQL,        *)
(* completes, creates every table after the tables its foreign keys name,   *)
(* and leaves vendor_products with the full schema and                      *)
(* UNIQUE(vendor_id, vendor_sku).                                           *)

InitEnded == dbinit.status \in {"done", "raised"}

\* every table was created after the tables its foreign keys name
DependencyOrder ==
    \A k \in DOMAIN dbinit.created :
        \A r \in dbinit.created[k].refs :
            \E j \in 1..(k - 1) : dbinit.created[j].table = r

FullVendorProducts ==
    /\ db_tables["vendor_products"].columns = VendorProductFull
    /\ NaturalKey \in db_tables["vendor_products"].unique

C28_InitializeEmptyDatabase ==
    (InitEnded /\ dbinit.from_empty) =>
        /\ dbinit.status = "done"
        /\ DependencyOrder
        /\ FullVendorProducts

\* what does hold: on SQLite the call completes, and vendor_products is the
\* join table of Product.create_table
C28_SqliteCompletes ==
    (InitEnded /\ dbinit.db_type = "sqlite") =>
        /\ dbinit.status = "done"
        /\ db_tables["vendor_products"].columns = VendorProductJoin

\* on PostgreSQL, from an empty database, the first CREATE TABLE raises
C28_PostgresEmptyRaises ==
    (InitEnded /\ dbinit.from_empty /\ dbinit.db_type = "postgresql") =>
        /\ dbinit.status = "raised"
        /\ dbinit.created = <<>>

----------------------------------------------------------------------------
(* C21: update_vendor, update_product and update_vendor_product with a      *)
(* subset of the fields change exactly the fields given as non-None         *)
(* arguments, leave every other column of the row as it was (a lookup by    *)
(* the unchanged vendor_sku still finds the row) and return True; when no   *)
(* row has the id they return False and write nothing.                      *)

UpdateTable ==
    [update_vendor |-> "vendors", update_product |-> "products",
     update_vendor_product |-> "vendor_products"]

UpdateCalled == ctl.op \in DOMAIN UpdateTable

\* the rows of the call's table that had the id when it was made
Target == {r \in ctl.before[UpdateTable[ctl.op]] : "id" \in DOMAIN r /\ r["id"] = ctl.id}

\* r with the given fields set and nothing else touched
Patched(r, args) == [c \in DOMAIN r |-> IF c \in DOMAIN args THEN args[c] ELSE r[c]]

ExactlyGivenFields ==
    /\ ctl.status = "True"
    /\ db_rows = [ctl.before EXCEPT ![UpdateTable[ctl.op]] =
                     {IF r \in Target THEN Patched(r, ctl.args) ELSE r : r \in @}]

FoundBySku ==
    ctl.op = "update_vendor_product" /\ "vendor_sku" \notin DOMAIN ctl.args =>
        \A old \in Target :
            \E r \in db_rows["vendor_products"] :
                /\ r["id"] = ctl.id
                /\ r["vendor_id"] = old["vendor_id"]
                /\ r["vendor_sku"] = old["vendor_sku"]

\* the table of the call has every column its model writes
TableReady ==
    /\ Exists(db_tables, UpdateTable[ctl.op])
    /\ ctl.op = "update_vendor_product" =>
           Range(VendorProductFull) \subseteq Range(db_tables["vendor_products"].columns)

C21_PartialUpdate ==
    (UpdateCalled /\ TableReady) =>
        IF Target = {}
        THEN ctl.status = "False" /\ db_rows = ctl.before
        ELSE ExactlyGivenFields /\ FoundBySku

\* what does hold: the claim for the two tables whose column order is fixed
\* by one CREATE TABLE, and for vendor_products when its columns are in the
\* order of the full schema
C21_PartialUpdateInOrder ==
    (/\ UpdateCalled
     /\ TableReady
     /\ ctl.op = "update_vendor_product" =>
            db_tables["vendor_products"].columns = VendorProductFull) =>
        IF Target = {}
        THEN ctl.status = "False" /\ db_rows = ctl.before
        ELSE ExactlyGivenFields /\ FoundBySku

----------------------------------------------------------------------------
(* Concurrent calls of VendorProductPostgres.save.  Each call has its own   *)
(* connection; the statements of different calls interleave.  An INSERT and *)
(* the commit after it are one step: a second INSERT of the same id waits   *)
(* for the first transaction and fails when that one commits.               *)

MaxSavers == 3

\* the vendor_sku of the row each call saves
SaverSkus == <<"S1", "S2", "S3", "S4", "S5">>

IdNumber(s) == CHOOSE k \in DOMAIN IdNames : IdNames[k] = s

\* SELECT MAX(id) FROM vendor_products; NULL on an empty table
MaxId(rws) == IF rws = {} THEN 0 ELSE Max({IdNumber(r["id"]) : r \in rws})

\* the schema after initialization with master_products in place
FullSchema ==
    [NoTables EXCEPT
        !["vendors"] = Table(VendorColumns, {}, {}, TRUE),
        !["master_products"] = Table(MasterProductColumns, {{"sku"}}, {}, TRUE),
        !["vendor_products"] = Table(VendorProductFull, {NaturalKey},
                                     {"vendors", "master_products"}, TRUE)]

AcmeRow == [c \in Range(VendorColumns) |->
              CASE c = "id" -> "1" [] c = "name" -> "Acme"
                [] c = "status" -> "active" [] OTHER -> NONE]

SavedRow(id, sku) ==
    [c \in Range(VendorProductFull) |->
        CASE c = "id" -> id [] c = "vendor_id" -> "1" [] c = "vendor_sku" -> sku
          [] c = "vendor_price" -> "39.99" [] c \in {"quantity", "quantity_nj", "quantity_fl"} -> "0"
          [] c = "status" -> "active" [] OTHER -> NONE]

Saver(sku) == [pc |-> "check", sku |-> sku, id |-> NONE, status |-> "running"]

\* save, lines 277-283: a call starts
save_begin ==
    /\ Len(savers) < MaxSavers
    /\ savers' = Append(savers, Saver(SaverSkus[Len(savers) + 1]))
    /\ UNCHANGED <<coreVars, schemaVars, imports, pair>>

\* lines 287-293: does the id column have a sequence default?
save_check_default ==
    \E i \in DOMAIN savers :
        /\ savers[i].pc = "check"
        /\ savers' = [savers EXCEPT ![i].pc =
                         IF db_tables["vendor_products"].id_default
                         THEN "insert_returning" ELSE "select_max"]
        /\ UNCHANGED <<coreVars, schemaVars, imports, pair>>

\* lines 295-310, 335-337: INSERT ... RETURNING id; nextval never hands out
\* a value twice
save_insert_returning ==
    \E i \in DOMAIN savers :
        /\ savers[i].pc = "insert_returning"
        /\ LET id == IdNames[MaxId(db_rows["vendor_products"]) + 1]
           IN /\ db_rows' = [db_rows EXCEPT !["vendor_products"] =
                                @ \cup {SavedRow(id, savers[i].sku)}]
              /\ savers' = [savers EXCEPT ![i].pc = "done", ![i].id = id,
                                          ![i].status = "returned"]
        /\ UNCHANGED <<coreVars, db_tables, dbinit, ctl, imports, pair>>

\* lines 314-316: self.id = (max_id or 0) + 1
save_select_max ==
    \E i \in DOMAIN savers :
        /\ savers[i].pc = "select_max"
        /\ savers' = [savers EXCEPT ![i].pc = "insert_id",
                         ![i].id = IdNames[MaxId(db_rows["vendor_products"]) + 1]]
        /\ UNCHANGED <<coreVars, schemaVars, imports, pair>>

\* lines 319-341: INSERT with the explicit id; the primary key refuses an id
\* that is in the table: rollback, raise
save_insert_id ==
    \E i \in DOMAIN savers :
        /\ savers[i].pc = "insert_id"
        /\ IF \E r \in db_rows["vendor_products"] : r["id"] = savers[i].id
           THEN /\ savers' = [savers EXCEPT ![i].pc = "done", ![i].status = "raised"]
                /\ UNCHANGED db_rows
           ELSE /\ db_rows' = [db_rows EXCEPT !["vendor_products"] =
                                  @ \cup {SavedRow(savers[i].id, savers[i].sku)}]
                /\ savers' = [savers EXCEPT ![i].pc = "done", ![i].status = "returned"]
        /\ UNCHANGED <<coreVars, db_tables, dbinit, ctl, imports, pair>>

\* a database with the full schema, whose id column has its sequence default
\* or lost it (create_table repairs it only at the next start)
InitSave ==
    /\ InitOutside("save")
    /\ db_tables \in {[FullSchema EXCEPT !["vendor_products"].id_default = d] :
                         d \in BOOLEAN}
    /\ db_rows \in {[NoRows EXCEPT !["vendors"] = {AcmeRow}, !["vendor_products"] = old] :
                       old \in {{}, {SavedRow("1", "A")}}}
    /\ dbinit = [NoInit EXCEPT !.db_type = "postgresql", !.status = "done"]
    /\ ctl = NoCall
    /\ savers = <<>>
    /\ imports = <<>>
    /\ pair = NoPair

NextSave ==
    \/ save_begin
    \/ save_check_default
    \/ save_insert_returning
    \/ save_select_max
    \/ save_insert_id

SpecSave == InitSave /\ [][NextSave]_vars

(* C26: save gives each new row an id different from the id of every other  *)
(* row, and returns it, for any interleaving of concurrent save calls, with *)
(* a sequence default on the id column and on the MAX(id)+1 path.           *)

\* call i ended by returning the id of the one row that holds its values
ReturnedItsId(i) ==
    /\ savers[i].status = "returned"
    /\ \E r \in db_rows["vendor_products"] :
          /\ r["id"] = savers[i].id
          /\ r["vendor_sku"] = savers[i].sku
    /\ \A r \in db_rows["vendor_products"] :
          r["id"] = savers[i].id => r["vendor_sku"] = savers[i].sku

C26_UniqueIds ==
    \A i \in DOMAIN savers : savers[i].pc = "done" => ReturnedItsId(i)

\* what does hold: the claim with a sequence default on the id column
C26_UniqueIdsWithSequence ==
    db_tables["vendor_products"].id_default =>
        \A i \in DOMAIN savers : savers[i].pc = "done" => ReturnedItsId(i)

\* and on both paths no two stored rows share an id
C26_StoredIdsDiffer ==
    \A r, o \in db_rows["vendor_products"] : r["id"] = o["id"] => r = o

----------------------------------------------------------------------------
(* Two imports at the same time: each runs the loop of                      *)
(* _process_mapped_data on its own thread, and the store calls of the two   *)
(* loops interleave.  The lookup and the write of one record are two calls. *)

\* the batches of the concurrent imports: every one holds sku A
RaceBatches == {<<RecA>>, <<RecA, RecB>>, <<RecB, RecA>>}

Import(batch) ==
    [pc |-> "lookup", data |-> batch, idx |-> 0, existing |-> {},
     imported_count |-> 0, errors |-> <<>>]

\* product_data of the record import m is at
ProductData(m) ==
    WithVendor(ApplyMapping(m.data[m.idx + 1], DefaultMapping), vendor_id)

\* line 396: existing_product = ProductController.get_by_vendor_sku(...)
import_lookup ==
    \E i \in DOMAIN imports :
        /\ imports[i].pc = "lookup"
        /\ imports[i].idx < Len(imports[i].data)
        /\ imports' = [imports EXCEPT
              ![i].pc = "write",
              ![i].existing = get_by_vendor_sku(store, vendor_id,
                                                ProductData(imports[i])["sku"])]
        /\ UNCHANGED <<coreVars, schemaVars, savers, pair>>

\* lines 398-408: update or create, count; the insert of a (vendor, sku) that
\* is in the table by now raises IntegrityError, which the except reports
import_write ==
    \E i \in DOMAIN imports :
        LET m == imports[i]
            pd == ProductData(m)
            next == IF m.idx + 1 = Len(m.data) THEN "done" ELSE "lookup"
        IN /\ m.pc = "write"
           /\ IF UpsertBranch(m.existing) = "update"
              THEN /\ store' = update(store, ExistingId(m.existing), pd)
                   /\ UNCHANGED nextId
                   /\ imports' = [imports EXCEPT ![i].pc = next, ![i].idx = @ + 1,
                                                 ![i].imported_count = @ + 1]
              ELSE IF Conflicts(store, vendor_id, pd["sku"]) # {}
              THEN /\ UNCHANGED storeVars
                   /\ imports' = [imports EXCEPT ![i].pc = next, ![i].idx = @ + 1,
                          ![i].errors = Append(@, Error("exception", m.data[m.idx + 1]))]
              ELSE /\ store' = create(store, nextId, pd)
                   /\ nextId' = nextId + 1
                   /\ imports' = [imports EXCEPT ![i].pc = next, ![i].idx = @ + 1,
                                                 ![i].imported_count = @ + 1]
           /\ UNCHANGED <<pc, argVars, procVars, procResult, result, readerVars,
                          dbVars, cfgVars, uiVars, schemaVars, savers, pair>>

\* two imports for vendor v1 are about to run; no row of v1 has sku A or B
InitRace ==
    /\ entry = "race"
    /\ pc = "race"
    /\ vendors = Vendors
    /\ store \in {{}, {Row(2, "v2", "A", "Other")}}
    /\ nextId = FirstFreeId
    /\ vendor_id = "v1"
    /\ mapping = NoMapping
    /\ data = <<>>
    /\ src = NoSource
    /\ file = NoFile
    /\ InitLocals
    /\ InitDbIdle
    /\ InitSettingsIdle
    /\ InitUiIdle
    /\ db_tables = NoTables
    /\ db_rows = NoRows
    /\ dbinit = NoInit
    /\ ctl = NoCall
    /\ savers = <<>>
    /\ pair = NoPair
    /\ \E a, b \in RaceBatches : imports = <<Import(a), Import(b)>>

NextRace ==
    \/ import_lookup
    \/ import_write

SpecRace == InitRace /\ [][NextRace]_vars

(* C25: for every interleaving of two per-record imports for the same       *)
(* vendor that both contain the same previously absent sku, the store ends  *)
(* with exactly one row for that (vendor, sku), each import either counts   *)
(* the record or reports one error for it, and at no time are there two     *)
(* rows for the pair.                                                       *)

ImportsDone == \A i \in DOMAIN imports : imports[i].pc = "done"

SkusOf(m) == {ApplyMapping(m.data[k], DefaultMapping)["sku"] : k \in DOMAIN m.data}

\* every record of import m was counted or has one error
Accounted(m) ==
    /\ m.imported_count + Len(m.errors) = m.idx
    /\ \A k \in DOMAIN m.errors :
          Cardinality({j \in DOMAIN m.errors : m.errors[j].item = m.errors[k].item}) = 1

----------------------------------------------------------------------------
(* The two bulk_insert implementations side by side: the SQLite one         *)
(* (models/vendor_product.py) and the PostgreSQL one                        *)
(* (v1/models/vendor_product_postgres.py), each given the same table and    *)
(* the same products_data.                                                  *)

MaxPairProducts == 2

\* a vendor_products row with the columns the two statements treat apart
FullRow(id, v, sku, master, price, qty, props, status) ==
    [id |-> id, vendor_id |-> v, vendor_sku |-> sku, master_product_id |-> master,
     vendor_price |-> price, quantity |-> qty, props |-> props, status |-> status]

\* the keys of a product that are columns of their own
ColumnKeys == {"sku", "price", "list", "map", "mrp", "qty", "qtynj", "qtyfl",
               "eta", "etanj", "etafl", "wt", "bh", "bl", "bw"}

\* product.get(key, default)
GetOr(product, key, default) ==
    IF key \in DOMAIN product THEN product[key] ELSE default

\* json.dumps(props) if props else None
PropsOf(product) ==
    LET extra == DOMAIN product \ ColumnKeys
    IN IF extra = {} THEN NONE ELSE [k \in extra |-> product[k]]

\* the values tuple of one product
BulkRow(id, v, product) ==
    FullRow(id, v, GetOr(product, "sku", ""), NONE, GetOr(product, "price", NONE),
            GetOr(product, "qty", "0"), PropsOf(product), "active")

Colliding(rws, v, sku) ==
    {r \in rws : r.vendor_id = v /\ r.vendor_sku # NONE /\ r.vendor_sku = sku}

\* INSERT OR REPLACE of one row: the colliding row is deleted, the new row
\* gets the next AUTOINCREMENT id
SqliteReplace(rws, id, v, product) ==
    (rws \ Colliding(rws, v, GetOr(product, "sku", ""))) \cup {BulkRow(id, v, product)}

\* INSERT ... ON CONFLICT (vendor_id, vendor_sku) DO UPDATE SET <prices,
\* quantities, etas, weight, dimensions>: a colliding row keeps its id,
\* master_product_id, props and status
PostgresUpsert(rws, id, v, product) ==
    LET hit == Colliding(rws, v, GetOr(product, "sku", ""))
    IN IF hit = {} THEN rws \cup {BulkRow(id, v, product)}
       ELSE {IF r \in hit
             THEN [r EXCEPT !.vendor_price = GetOr(product, "price", NONE),
                            !.quantity = GetOr(product, "qty", "0")]
             ELSE r : r \in rws}

RECURSIVE PostgresUpsertAll(_, _, _, _, _)
PostgresUpsertAll(rws, id, v, products, k) ==
    IF k > Len(products) THEN rws
    ELSE PostgresUpsertAll(PostgresUpsert(rws, id, v, products[k]), id + 1, v,
                           products, k + 1)

\* the rows a call starts from, and the products it is given
LinkedRow == FullRow(1, "v1", "A", "7", "4", "1", [color |-> "blue"], "discontinued")
PlainRow == FullRow(2, "v1", "B", NONE, "6", "0", NONE, "active")
PairTables == {{}, {LinkedRow}, {PlainRow}, {LinkedRow, PlainRow}}
PairProducts == {[sku |-> "A", price |-> "5"],
                 [sku |-> "A", price |-> "5", color |-> "red"],
                 [sku |-> "B", price |-> "6", qty |-> "3"],
                 [sku |-> "C", price |-> "9"]}
PairInputs == {q \in SeqsUpTo(PairProducts, MaxPairProducts) : q # <<>>}

NoOutcome == [status |-> "none", rows |-> {}, total_inserted |-> 0]

\* VendorProduct.bulk_insert, lines 146-195: the next row of executemany
pair_sqlite_row ==
    /\ pair.status = "running"
    /\ pair.sqlite.status = "none"
    /\ pair.k < Len(pair.input)
    /\ pair' = [pair EXCEPT
          !.k = @ + 1,
          !.sqlite.rows = SqliteReplace(@, FirstFreeId + pair.k, "v1",
                                        pair.input[pair.k + 1])]
    /\ UNCHANGED <<coreVars, schemaVars, raceVars>>

\* lines 197-200: commit, close, return total_inserted
pair_sqlite_return ==
    /\ pair.status = "running"
    /\ pair.sqlite.status = "none"
    /\ pair.k = Len(pair.input)
    /\ pair' = [pair EXCEPT !.sqlite.status = "returned",
                            !.sqlite.total_inserted = Len(pair.input)]
    /\ UNCHANGED <<coreVars, schemaVars, raceVars>>

\* VendorProductPostgres.bulk_insert, lines 453-528: one statement for the
\* chunk; the server refuses it when the row has more expressions than the
\* column list, and the exception leaves bulk_insert before the commit
pair_postgres_execute ==
    /\ pair.status = "running"
    /\ pair.postgres.status = "none"
    /\ pair' = [pair EXCEPT !.postgres =
          IF StatementAccepted("postgres")
          THEN [status |-> "returned",
                rows |-> PostgresUpsertAll(pair.start, FirstFreeId, "v1", pair.input, 1),
                total_inserted |-> Len(pair.input)]
          ELSE [status |-> "raised", rows |-> pair.start, total_inserted |-> 0]]
    /\ UNCHANGED <<coreVars, schemaVars, raceVars>>

InitPair ==
    /\ InitOutside("pair")
    /\ db_tables = NoTables
    /\ db_rows = NoRows
    /\ dbinit = NoInit
    /\ ctl = NoCall
    /\ savers = <<>>
    /\ imports = <<>>
    /\ \E start \in PairTables, input \in PairInputs :
          pair = [status |-> "running", start |-> start, input |-> input, k |-> 0,
                  sqlite |-> [NoOutcome EXCEPT !.rows = start],
                  postgres |-> [NoOutcome EXCEPT !.rows = start]]

NextPair ==
    \/ pair_sqlite_row
    \/ pair_sqlite_return
    \/ pair_postgres_execute

SpecPair == InitPair /\ [][NextPair]_vars

(* C29: started from the same vendor_products contents and given the same   *)
(* input, the SQLite bulk_insert and the PostgreSQL bulk_insert leave the   *)
(* same rows, equal in every column and in row identity, also when a        *)
(* record's (vendor, sku) exists with a master-product link and a property  *)
(* bag.                                                                     *)

BothEnded == pair.sqlite.status # "none" /\ pair.postgres.status # "none"

C29_BackendsAgree ==
    BothEnded =>
        /\ pair.sqlite.status = "returned"
        /\ pair.postgres.status = "returned"
        /\ pair.sqlite.rows = pair.postgres.rows

\* what does hold: the PostgreSQL call raises and leaves the table as it
\* was, while the SQLite call returns with a row for every sku of the input
C29_OnlySqliteWrites ==
    BothEnded =>
        /\ pair.postgres.status = "raised"
        /\ pair.postgres.rows = pair.start
        /\ pair.sqlite.status = "returned"
        /\ \A k \in DOMAIN pair.input :
              Colliding(pair.sqlite.rows, "v1", pair.input[k].sku) # {}

====
